---------------------------- MODULE Spec2Model ----------------------------
(***************************************************************************)
(* Curriculum matching and exit-indicator engine of the UVM indicator web  *)
(* application: src/src/utils/mallaIndex.js (normalizer, indexer, matcher),*)
(* src/src/utils/parsers.js (enrichGradesWithTraza) and                    *)
(* src/src/utils/calculators.js (the seven components and the aggregate).  *)
(*                                                                         *)
(* JavaScript values are modelled as tagged records (JsStr, JsNum, ...);   *)
(* JavaScript strings are TLA+ strings, handled character by character.    *)
(* Grades (field nota) are held in tenths: 4.2 is JsNum(42).               *)
(***************************************************************************)
EXTENDS Integers, Sequences, FiniteSets, TLC

VARIABLES
    nText,              \* normalizer: the input value
    nFlag,              \* normalizer: removeAllSpaces
    nOut,               \* normalizer: results of the successive applications
    mallaJson,          \* the curriculum document
    mallaIndex,         \* buildMallaIndex(mallaJson), or NotYet
    reIndex,            \* buildMallaIndex(mallaIndex.allCourses), or NotYet
    matched,            \* [record, entry] of one matchAsignaturaToMalla call, or NotYet
    gradesData,         \* the record list handed to the enricher, or NotYet
    enriched,           \* enrichGradesWithTraza(gradesData, mallaJson), or NotYet
    studentRecords,     \* calculator: the (enriched) records of one student
    criticalityData,    \* calculator: the criticality table
    curriculumData,     \* calculator: the curriculum document
    demographicData,    \* calculator: the demographic data
    indicator,          \* calculateExitIndicator(...), or NotYet
    compValues,         \* the component functions called one by one, or NotYet
    ultimoSemestreAlcanzado,    \* the property calculateRelevance writes on
                                \* calculateExitIndicator
    stashAtCall,        \* what that property held when calculateExitIndicator was
                        \* last invoked
    audited,            \* calculateExitIndicatorWithAudit(...), or NotYet
    critItem,           \* one entry of a criticality table
    critScore,          \* the number getCriticalityScore(critItem) returns, or NotYet
    heap,               \* traversal: the objects of a document that are referred to
    stack,              \* traversal: the pending traverse(data, depth, currentSem) calls
    travIndex,          \* traversal: the index under construction, or NotYet
    deepest,            \* traversal: the greatest depth at which a node was examined
    appGradesData,      \* App: the gradesData state
    appCurriculumData,  \* App: the curriculumData state
    effectPending,      \* App: the enrichment effect is scheduled to run
    writes,             \* App: setGradesData calls of the effect since the last load
    loads               \* App: files loaded so far

normVars == <<nText, nFlag, nOut>>
mallaVars == <<mallaJson, mallaIndex, reIndex, matched, gradesData, enriched>>
calcVars == <<studentRecords, criticalityData, curriculumData, demographicData,
              indicator, compValues, ultimoSemestreAlcanzado, stashAtCall, audited>>
scoreVars == <<critItem, critScore>>
travVars == <<heap, stack, travIndex, deepest>>
appVars == <<appGradesData, appCurriculumData, effectPending, writes, loads>>
vars == <<nText, nFlag, nOut, mallaJson, mallaIndex, reIndex, matched, gradesData,
          enriched, studentRecords, criticalityData, curriculumData,
          demographicData, indicator, compValues, ultimoSemestreAlcanzado,
          stashAtCall, audited, critItem, critScore, heap, stack, travIndex,
          deepest, appGradesData, appCurriculumData, effectPending, writes, loads>>

(***************************************************************************)
(* Bounds of the model.                                                    *)
(***************************************************************************)
MaxLen == 3         \* longest text handed to the normalizer specification
MaxCourses == 2     \* most course nodes in a generated curriculum document
MaxRecords == 2     \* most rows in a generated record list

NotYet == [t |-> "notyet"]

(***************************************************************************)
(* JavaScript values.                                                      *)
(***************************************************************************)
JsUndef == [t |-> "undef"]
JsNull == [t |-> "null"]
JsBool(b) == [t |-> "bool", b |-> b]
JsNum(n) == [t |-> "num", n |-> n]
JsStr(s) == [t |-> "str", s |-> s]
JsArr(items) == [t |-> "arr", items |-> items]
\* props: the own properties in Object.keys order, each [k |-> key, v |-> value]
JsObj(props) == [t |-> "obj", props |-> props]
Prop(k, v) == [k |-> k, v |-> v]

Truthy(v) ==
    CASE v.t = "undef" -> FALSE
      [] v.t = "null" -> FALSE
      [] v.t = "nan" -> FALSE
      [] v.t = "bool" -> v.b
      [] v.t = "num" -> v.n # 0
      [] v.t = "str" -> v.s # ""
      [] OTHER -> TRUE

\* a || b
JsOr(a, b) == IF Truthy(a) THEN a ELSE b

\* TRUE, whatever v is: where it stands, v is evaluated before what follows it,
\* which keeps the evaluation of a loop's accumulator out of the loop's last turn
Evaluated(v) == v = v

\* e, with v evaluated first
Having(v, e) == IF Evaluated(v) THEN e ELSE e

\* a ?? b
JsNullish(a, b) == IF a.t \in {"undef", "null"} THEN b ELSE a

IsObjectType(v) == v.t \in {"arr", "obj"}    \* typeof v === 'object' && v

HasKey(obj, k) == obj.t = "obj" /\ \E i \in 1..Len(obj.props) : obj.props[i].k = k

\* obj[k]
Get(obj, k) ==
    IF HasKey(obj, k)
    THEN obj.props[CHOOSE i \in 1..Len(obj.props) : obj.props[i].k = k].v
    ELSE JsUndef

\* { ...obj, k: v }: an existing key keeps its place, a new one goes last
SetProp(obj, k, v) ==
    IF Evaluated(obj) /\ HasKey(obj, k)
    THEN JsObj([i \in 1..Len(obj.props) |->
                  IF obj.props[i].k = k THEN Prop(k, v) ELSE obj.props[i]])
    ELSE JsObj(Append(obj.props, Prop(k, v)))

(***************************************************************************)
(* Strings.                                                                *)
(***************************************************************************)
LowerAZ == "abcdefghijklmnopqrstuvwxyz"
UpperAZ == "ABCDEFGHIJKLMNOPQRSTUVWXYZ"
Digits == "0123456789"
\* the accented letters of the model and their NFD base letters
LowerAcc == "áéíóúñ"
UpperAcc == "ÁÉÍÓÚÑ"
LowerBase == "aeioun"
UpperBase == "AEIOUN"

CharAt(s, i) == SubSeq(s, i, i)

CharsOf(s) == {CharAt(s, i) : i \in 1..Len(s)}

IndexOf(c, s) == CHOOSE i \in 1..Len(s) : CharAt(s, i) = c

\* the concatenation of parts[a..b], by halves
RECURSIVE joinRange(_, _, _)
joinRange(parts, a, b) ==
    IF a > b THEN ""
    ELSE IF a = b THEN parts[a]
    ELSE joinRange(parts, a, (a + b) \div 2) \o joinRange(parts, (a + b) \div 2 + 1, b)

\* the concatenation of a sequence of strings
join(parts) == Having(parts, joinRange(parts, 1, Len(parts)))

UpperSet == CharsOf(UpperAZ)
DigitSet == CharsOf(Digits)
AZ09Set == UpperSet \cup DigitSet

\* the table that sends each character of from to the one of to at its place
charTable(from, to) == [c \in CharsOf(from) |-> CharAt(to, IndexOf(c, from))]

upperOf == charTable(LowerAZ \o LowerAcc, UpperAZ \o UpperAcc)

lowerOf == charTable(UpperAZ \o UpperAcc, LowerAZ \o LowerAcc)

\* NFD splits an accented letter into its base letter and a combining mark
baseOf == charTable(LowerAcc \o UpperAcc, LowerBase \o UpperBase)

digitValue == [c \in DigitSet |-> IndexOf(c, Digits) - 1]

\* s with every character that table holds replaced by its image
mapChars(table, s) ==
    IF s = "" THEN ""
    ELSE join([i \in 1..Len(s) |->
                 IF CharAt(s, i) \in DOMAIN table THEN table[CharAt(s, i)]
                 ELSE CharAt(s, i)])

toUpperCase(s) == mapChars(upperOf, s)

toLowerCase(s) == mapChars(lowerOf, s)

\* .normalize("NFD").replace(/[\u0300-\u036f]/g, ""): the replace drops the
\* combining marks that NFD has split off
removeAccents(s) == mapChars(baseOf, s)

IsSpace(c) == c = " "               \* \s
IsAZ09(c) == c \in AZ09Set          \* [A-Z0-9]
IsDigit(c) == c \in DigitSet        \* \d

RECURSIVE trimStart(_)
trimStart(s) ==
    IF s # "" /\ IsSpace(CharAt(s, 1)) THEN trimStart(SubSeq(s, 2, Len(s))) ELSE s

RECURSIVE trimEnd(_)
trimEnd(s) ==
    IF s # "" /\ IsSpace(CharAt(s, Len(s))) THEN trimEnd(SubSeq(s, 1, Len(s) - 1)) ELSE s

\* String.prototype.trim
trim(s) == trimEnd(trimStart(s))

\* s.replace(/[^A-Z0-9]/g, "")
keepAZ09(s) ==
    IF s = "" THEN ""
    ELSE join([i \in 1..Len(s) |-> IF IsAZ09(CharAt(s, i)) THEN CharAt(s, i) ELSE ""])

\* s.replace(/[^A-Z0-9_]/g, "")
keepAZ09Underscore(s) ==
    IF s = "" THEN ""
    ELSE join([i \in 1..Len(s) |->
                 IF CharAt(s, i) \in AZ09Set \cup {"_"} THEN CharAt(s, i) ELSE ""])

\* s.replace(/[^A-Z0-9\s]/g, "")
keepAZ09Space(s) ==
    IF s = "" THEN ""
    ELSE join([i \in 1..Len(s) |->
                 IF CharAt(s, i) \in AZ09Set \cup {" "} THEN CharAt(s, i) ELSE ""])

\* s.replace(/\s+/g, " ")
collapseSpaces(s) ==
    IF s = "" THEN ""
    ELSE join([i \in 1..Len(s) |->
                 IF ~IsSpace(CharAt(s, i)) THEN CharAt(s, i)
                 ELSE IF i > 1 /\ IsSpace(CharAt(s, i - 1)) THEN "" ELSE " "])

\* s.replace(/\s+/g, "")
removeSpaces(s) ==
    IF s = "" THEN ""
    ELSE join([i \in 1..Len(s) |-> IF IsSpace(CharAt(s, i)) THEN "" ELSE CharAt(s, i)])

\* s.replace(/\D/g, "")
keepDigits(s) ==
    IF s = "" THEN ""
    ELSE join([i \in 1..Len(s) |-> IF IsDigit(CharAt(s, i)) THEN CharAt(s, i) ELSE ""])

\* s.includes(sub)
includes(s, sub) ==
    \E i \in 1..(Len(s) - Len(sub) + 1) : SubSeq(s, i, i + Len(sub) - 1) = sub

\* s.startsWith(sub)
startsWith(s, sub) == Len(sub) <= Len(s) /\ SubSeq(s, 1, Len(sub)) = sub

RECURSIVE natToString(_)
natToString(n) ==
    IF n < 10 THEN CharAt(Digits, n + 1)
    ELSE natToString(n \div 10) \o CharAt(Digits, (n % 10) + 1)

\* String(v)
RECURSIVE String(_)
String(v) ==
    CASE v.t = "undef" -> "undefined"
      [] v.t = "null" -> "null"
      [] v.t = "bool" -> IF v.b THEN "true" ELSE "false"
      [] v.t = "num" -> IF v.n < 0 THEN "-" \o natToString(-v.n) ELSE natToString(v.n)
      [] v.t = "str" -> v.s
      [] v.t = "arr" ->
            join([i \in 1..Len(v.items) |->
                    (IF i > 1 THEN "," ELSE "") \o
                    (IF v.items[i].t \in {"undef", "null"} THEN ""
                     ELSE String(v.items[i]))])
      [] OTHER -> "[object Object]"

(***************************************************************************)
(* Text Normalizer: mallaIndex.js normalizeCourseName.                     *)
(***************************************************************************)
\* the two replace branches of normalizeCourseName
stripSymbols(normalized, removeAllSpaces) ==
    IF removeAllSpaces
    THEN keepAZ09(normalized)
    ELSE collapseSpaces(keepAZ09Space(normalized))

normalizeCourseName(str, removeAllSpaces) ==
    IF ~Truthy(str) THEN ""
    ELSE stripSymbols(trim(toUpperCase(removeAccents(String(str)))), removeAllSpaces)

(***************************************************************************)
(* Numbers read from text.                                                 *)
(***************************************************************************)
JsNaN == [t |-> "nan"]

RECURSIVE digitsToNat(_)
digitsToNat(s) ==
    IF s = "" THEN 0
    ELSE 10 * digitsToNat(SubSeq(s, 1, Len(s) - 1)) + digitValue[CharAt(s, Len(s))]

\* the longest run of digits at the start of s
RECURSIVE leadingDigits(_)
leadingDigits(s) ==
    IF s # "" /\ IsDigit(CharAt(s, 1))
    THEN CharAt(s, 1) \o leadingDigits(SubSeq(s, 2, Len(s)))
    ELSE ""

\* the number a run of digits writes, NaN for no digit
digitsToNumber(ds) == IF ds = "" THEN JsNaN ELSE JsNum(digitsToNat(ds))

\* the number val under a sign character
signed(sign, val) == IF sign = "-" /\ val.t = "num" THEN JsNum(-val.n) ELSE val

\* parseInt of a trimmed text: an optional sign, then the leading digits
parseIntText(s) ==
    IF s # "" /\ CharAt(s, 1) \in {"-", "+"}
    THEN signed(CharAt(s, 1), digitsToNumber(leadingDigits(SubSeq(s, 2, Len(s)))))
    ELSE digitsToNumber(leadingDigits(s))

\* the number a text of digits only writes, NaN for any other text
wholeDigits(ds) ==
    IF ds # "" /\ leadingDigits(ds) = ds THEN JsNum(digitsToNat(ds)) ELSE JsNaN

\* Number of a trimmed text: the empty text is 0
numberOfText(s) ==
    IF s = "" THEN JsNum(0)
    ELSE IF CharAt(s, 1) = "-" THEN signed("-", wholeDigits(SubSeq(s, 2, Len(s))))
    ELSE wholeDigits(s)

\* Number(v), for the values the records hold
Number(v) ==
    CASE v.t = "num" -> v
      [] v.t = "null" -> JsNum(0)
      [] v.t = "bool" -> JsNum(IF v.b THEN 1 ELSE 0)
      [] v.t = "str" -> numberOfText(trim(v.s))
      [] OTHER -> JsNaN

\* parseInt(v, 10): leading white space, an optional sign, then digits
parseInt(v) == parseIntText(trim(String(v)))

\* parseInt(x, 10) || otherwise
parseIntOr(x, otherwise) == IF Truthy(parseInt(x)) THEN parseInt(x).n ELSE otherwise

\* !isNaN(val) && val > 0
IsPositiveNumber(val) == val.t = "num" /\ val.n > 0

\* s.match(/\d+/): the first run of digits of s, or null
RECURSIVE matchDigits(_)
matchDigits(s) ==
    IF s = "" THEN JsNull
    ELSE IF IsDigit(CharAt(s, 1)) THEN JsStr(leadingDigits(s))
    ELSE matchDigits(SubSeq(s, 2, Len(s)))

(***************************************************************************)
(* JavaScript Map, in insertion order: a sequence of [k |-> key, v |-> v]. *)
(***************************************************************************)
MapHas(m, k) == \E i \in 1..Len(m) : m[i].k = k

MapGet(m, k) == m[CHOOSE i \in 1..Len(m) : m[i].k = k].v

\* Map.prototype.set: a key that is present keeps its position
MapSet(m, k, v) ==
    IF Evaluated(m) /\ MapHas(m, k)
    THEN [i \in 1..Len(m) |-> IF m[i].k = k THEN [k |-> k, v |-> v] ELSE m[i]]
    ELSE Append(m, [k |-> k, v |-> v])

(***************************************************************************)
(* Curriculum Indexer: mallaIndex.js buildMallaIndex.                      *)
(***************************************************************************)
nameKeys == <<"ASIGNATURA", "NOMBRE", "NAME", "MATERIA", "DESC", "DESCRIPCION",
              "DESCRIPCIÓN", "ASIG">>

codeKeys == <<"CODIGO", "CÓDIGO", "SIGLA", "COD", "NRC", "ID", "CLAVE",
              "CODIGOASIGNATURA", "CODIGO_ASIGNATURA", "CODIGOASIGNAT",
              "CODASIGNATURA">>

semKeys == <<"SEMESTRE", "NIVEL", "INDICE_SEMESTRE", "CICLO", "PERIODO_MALLA">>

\* nk.replace(/[^A-Z0-9_]/g, "") of every key of a list
strippedKeys(keyList) == {keepAZ09Underscore(keyList[i]) : i \in 1..Len(keyList)}

nameKeysStripped == strippedKeys(nameKeys)
codeKeysStripped == strippedKeys(codeKeys)
semKeysStripped == strippedKeys(semKeys)

\* strippedList.some(nk => normK.includes(nk))
someKeyIncluded(stripped, normK) == \E nk \in stripped : includes(normK, nk)

\* the normalization of a property name in addCourse
normalizeKey(k) == keepAZ09Underscore(removeAccents(toUpperCase(k)))

\* one turn of the loop of addCourse over Object.keys(obj): acc holds name, code
\* and semestre, normK is the normalized key and v the value under the key
scanKey(acc, normK, v) ==
    [name |-> IF ~Truthy(acc.name) /\ someKeyIncluded(nameKeysStripped, normK)
              THEN v ELSE acc.name,
     code |-> IF ~Truthy(acc.code) /\ someKeyIncluded(codeKeysStripped, normK)
              THEN v ELSE acc.code,
     semestre |-> IF someKeyIncluded(semKeysStripped, normK) /\ IsPositiveNumber(parseInt(v))
                  THEN parseInt(v).n ELSE acc.semestre]

\* the loop of addCourse over Object.keys(obj)
RECURSIVE scanKeys(_, _, _)
scanKeys(obj, i, acc) ==
    IF Evaluated(acc) /\ i > Len(obj.props) THEN acc
    ELSE scanKeys(obj, i + 1,
                  scanKey(acc, normalizeKey(obj.props[i].k), obj.props[i].v))

\* the fallbacks of addCourse for what the loop has left empty
courseFields(obj, scanned) ==
    [name |-> IF ~Truthy(scanned.name)
              THEN JsOr(JsOr(Get(obj, "asignatura"), Get(obj, "nombre")), Get(obj, "name"))
              ELSE scanned.name,
     code |-> IF ~Truthy(scanned.code)
              THEN JsOr(JsOr(JsOr(JsOr(Get(obj, "codigo"), Get(obj, "sigla")),
                                  Get(obj, "cod")), Get(obj, "codigo_asignatura")),
                        Get(obj, "CODIGO_ASIGNATURA"))
              ELSE scanned.code,
     semestre |-> IF scanned.semestre = 0
                  THEN parseIntOr(JsOr(JsOr(Get(obj, "semestre"), Get(obj, "nivel")),
                                       Get(obj, "indice_semestre")), 0)
                  ELSE scanned.semestre]

\* the entry addCourse makes of the fields it has found
courseInfoOf(obj, fields) ==
    JsObj(<<Prop("nombre", JsStr(String(JsOr(fields.name, JsStr(""))))),
            Prop("codigo", JsStr(String(JsOr(fields.code, JsStr(""))))),
            Prop("semestre", JsNum(fields.semestre)),
            Prop("original", obj)>>)

EmptyIndex == [byCode |-> <<>>, byName |-> <<>>, allCourses |-> <<>>]

\* isDuplicate that compares the codes only
isDuplicate_CodeOnly(allCourses, normCode, normName) ==
    \E j \in 1..Len(allCourses) :
        normCode # ""
          /\ normalizeCourseName(Get(allCourses[j], "codigo"), TRUE) = normCode

\* allCourses.some(...): an entry of allCourses has the code or the name
isDuplicate(allCourses, normCode, normName) ==
    \E j \in 1..Len(allCourses) :
        \/ (normCode # ""
              /\ normalizeCourseName(Get(allCourses[j], "codigo"), TRUE) = normCode)
        \/ (normName # ""
              /\ normalizeCourseName(Get(allCourses[j], "nombre"), FALSE) = normName)

\* indexCourse with byCode keyed by the code as written, not normalized
indexCourse_RawCodeKey(idx, courseInfo, normCode, normName) ==
    [byCode |-> IF normCode # ""
                THEN MapSet(idx.byCode, Get(courseInfo, "codigo").s, courseInfo)
                ELSE idx.byCode,
     byName |-> IF normName # "" THEN MapSet(idx.byName, normName, courseInfo)
                ELSE idx.byName,
     allCourses |-> IF isDuplicate(idx.allCourses, normCode, normName)
                    THEN idx.allCourses
                    ELSE Append(idx.allCourses, courseInfo)]

\* addCourse, lines 114-126: the entry goes into byCode and byName under its
\* normalized keys, and into allCourses unless an entry there has its code or name
indexCourse(idx, courseInfo, normCode, normName) ==
    [byCode |-> IF normCode # "" THEN MapSet(idx.byCode, normCode, courseInfo)
                ELSE idx.byCode,
     byName |-> IF normName # "" THEN MapSet(idx.byName, normName, courseInfo)
                ELSE idx.byName,
     allCourses |-> IF isDuplicate(idx.allCourses, normCode, normName)
                    THEN idx.allCourses
                    ELSE Append(idx.allCourses, courseInfo)]

\* addCourse, lines 111-126: the entry is indexed under its normalized keys
addCourseInfo(idx, courseInfo) ==
    indexCourse(idx, courseInfo,
                normalizeCourseName(Get(courseInfo, "codigo"), TRUE),
                normalizeCourseName(Get(courseInfo, "nombre"), FALSE))

\* addCourse, lines 103-127: with a name or a code, the entry is made and indexed
addFields(idx, obj, fields) ==
    IF Truthy(fields.name) \/ Truthy(fields.code)
    THEN addCourseInfo(idx, courseInfoOf(obj, fields))
    ELSE idx

addCourse(idx, obj, inheritedSem) ==
    addFields(idx, obj,
        courseFields(obj, scanKeys(obj, 1, [name |-> JsStr(""), code |-> JsStr(""),
                                            semestre |-> inheritedSem])))

\* the test isCourse makes of one normalized key
isCourseKey(k) ==
    \/ includes(k, "CODIGO")
    \/ includes(k, "SIGLA")
    \/ k = "COD"
    \/ k = "NRC"
    \/ includes(k, "CODIGOASIGNATURA")
    \/ includes(k, "ASIGNATURA")
    \/ includes(k, "NOMBRE")
    \/ k = "NAME"
    \/ k = "MATERIA"
    \/ includes(k, "DESC")

isCourse(obj) ==
    /\ obj.t = "obj"
    /\ \E i \in 1..Len(obj.props) :
          isCourseKey(normalizeCourseName(JsStr(obj.props[i].k), TRUE))

\* the number num when normK names one of the words and num is positive
semOfKey(normK, words, num, otherwise) ==
    IF (\E w \in words : includes(normK, w)) /\ IsPositiveNumber(num)
    THEN num.n ELSE otherwise

\* the semester a node's own keys announce (first loop of traverse)
RECURSIVE detectSem(_, _, _)
detectSem(data, i, currentSem) ==
    IF Evaluated(currentSem) /\ i > Len(data.props) THEN currentSem
    ELSE detectSem(data, i + 1,
            semOfKey(keepAZ09(removeAccents(toUpperCase(data.props[i].k))),
                     {"SEMESTRE", "NIVEL", "BLOQUE"},
                     parseInt(JsStr(keepDigits(data.props[i].k))),
                     currentSem))

\* the semester handed to the value under key (second loop of traverse)
nextSemOf(key, detectedSem) ==
    IF IsPositiveNumber(parseInt(JsStr(key))) /\ parseInt(JsStr(key)).n <= 12
    THEN parseInt(JsStr(key)).n
    ELSE semOfKey(removeAccents(toUpperCase(key)), {"SEMESTRE", "NIVEL"},
                  parseInt(JsStr(keepDigits(key))), detectedSem)

DepthCap == 15

RECURSIVE traverse(_, _, _, _)
RECURSIVE traverseItems(_, _, _, _, _)
RECURSIVE traverseProps(_, _, _, _, _)

\* traverse on an object whose own keys announce detectedSem
traverseObject(idx, data, depth, detectedSem) ==
    traverseProps(IF isCourse(data) THEN addCourse(idx, data, detectedSem) ELSE idx,
                  data.props, 1, depth, detectedSem)

traverse(idx, data, depth, currentSem) ==
    CASE ~Truthy(data) \/ depth > DepthCap -> idx
      [] data.t = "arr" -> traverseItems(idx, data.items, 1, depth, currentSem)
      [] data.t = "obj" ->
            traverseObject(idx, data, depth, detectSem(data, 1, currentSem))
      [] OTHER -> idx

traverseItems(idx, items, i, depth, currentSem) ==
    IF Evaluated(idx) /\ i > Len(items) THEN idx
    ELSE traverseItems(traverse(idx, items[i], depth + 1, currentSem),
                       items, i + 1, depth, currentSem)

traverseProps(idx, props, i, depth, detectedSem) ==
    IF Evaluated(idx) /\ Evaluated(detectedSem) /\ i > Len(props) THEN idx
    ELSE traverseProps(
            IF IsObjectType(props[i].v)
            THEN traverse(idx, props[i].v, depth + 1, nextSemOf(props[i].k, detectedSem))
            ELSE idx,
            props, i + 1, depth, detectedSem)

buildMallaIndex(doc) == traverse(EmptyIndex, doc, 0, 0)

(***************************************************************************)
(* Course Matcher: mallaIndex.js matchAsignaturaToMalla.                   *)
(***************************************************************************)
\* the record's code field as the matcher reads it
recordCodeOf(record) ==
    normalizeCourseName(
        JsOr(JsOr(JsOr(Get(record, "codigoAsignatura"), Get(record, "CODIGO_ASIGNATURA")),
                  Get(record, "codigo")), Get(record, "sigla")),
        TRUE)

\* the record's name field as the matcher reads it
recordNameOf(record) ==
    normalizeCourseName(
        JsOr(JsOr(Get(record, "nombreAsignatura"), Get(record, "nombre")),
             Get(record, "asignatura")),
        FALSE)

FuzzyMinLen == 3
FuzzyMaxDiff == 20

abs(n) == IF n < 0 THEN -n ELSE n

\* recordNum && mallaNum && recordNum[0] !== mallaNum[0]
numbersDiffer(recordNum, mallaNum) ==
    recordNum # JsNull /\ mallaNum # JsNull /\ recordNum # mallaNum

\* one turn of the fuzzy loop: does the candidate normName return?
fuzzyQualifies(recordName, normName) ==
    IF includes(normName, recordName) \/ includes(recordName, normName)
    THEN ~numbersDiffer(matchDigits(recordName), matchDigits(normName))
    ELSE /\ (startsWith(normName, recordName) \/ startsWith(recordName, normName))
         /\ abs(Len(normName) - Len(recordName)) < FuzzyMaxDiff

\* the fuzzy loop over byName.entries(), in insertion order, from entry i on
RECURSIVE fuzzyMatch(_, _, _)
fuzzyMatch(recordName, byName, i) ==
    IF i > Len(byName) THEN JsNull
    ELSE IF fuzzyQualifies(recordName, byName[i].k) THEN byName[i].v
    ELSE fuzzyMatch(recordName, byName, i + 1)

\* the stages with the exact-name stage tried before the code stage
matchStages_NameFirst(recordCode, recordName, index) ==
    IF recordName # "" /\ MapHas(index.byName, recordName)
    THEN MapGet(index.byName, recordName)
    ELSE IF recordCode # "" /\ MapHas(index.byCode, recordCode)
    THEN MapGet(index.byCode, recordCode)
    ELSE IF recordName # "" /\ Len(recordName) > FuzzyMinLen
    THEN fuzzyMatch(recordName, index.byName, 1)
    ELSE JsNull

\* the three stages of the matcher: code, exact name, fuzzy name
matchStages(recordCode, recordName, index) ==
    IF recordCode # "" /\ MapHas(index.byCode, recordCode)
    THEN MapGet(index.byCode, recordCode)
    ELSE IF recordName # "" /\ MapHas(index.byName, recordName)
    THEN MapGet(index.byName, recordName)
    ELSE IF recordName # "" /\ Len(recordName) > FuzzyMinLen
    THEN fuzzyMatch(recordName, index.byName, 1)
    ELSE JsNull

matchAsignaturaToMalla(record, index) ==
    IF Evaluated(index) /\ ~Truthy(record) THEN JsNull
    ELSE matchStages(recordCodeOf(record), recordNameOf(record), index)

(***************************************************************************)
(* Record Enricher: parsers.js enrichGradesWithTraza.                      *)
(***************************************************************************)
normalizeCode(value) ==
    IF value.t \in {"null", "undef"} THEN ""
    ELSE keepAZ09(removeSpaces(toUpperCase(trim(String(value)))))

\* the enricher's own code lookup, built from mallaIndex.allCourses
RECURSIVE enrichByCode(_, _, _)
enrichByCode(allCourses, i, byCode) ==
    IF Evaluated(byCode) /\ i > Len(allCourses) THEN byCode
    ELSE enrichByCode(allCourses, i + 1,
            IF normalizeCode(Get(allCourses[i], "codigo")) # ""
            THEN MapSet(byCode, normalizeCode(Get(allCourses[i], "codigo")), allCourses[i])
            ELSE byCode)

\* the code the enricher reads from a record
enrichCodeOf(record) ==
    normalizeCode(JsOr(JsOr(JsOr(JsOr(Get(record, "codigoAsignatura"),
                                      Get(record, "CODIGO_ASIGNATURA")),
                                 Get(record, "codigo")), Get(record, "sigla")),
                       JsStr("")))

\* the match the enricher uses for a record whose code is code
enrichMatch(record, code, index, byCode) ==
    IF code # "" /\ MapHas(byCode, code)
    THEN MapGet(byCode, code)
    ELSE matchAsignaturaToMalla(record, index)

\* match ? match[field] : null
fieldOrNull(match, field) == IF Truthy(match) THEN Get(match, field) ELSE JsNull

\* enMalla set from the match only on a row that has no enMalla yet
enrichRecord_OnlyWhenNew(record, match) ==
    Having(match,
        SetProp(SetProp(SetProp(SetProp(record,
            "enMalla", JsBool(Truthy(match) /\ ~HasKey(record, "enMalla"))),
            "semestreCurricular",
                IF Truthy(match) THEN Number(Get(match, "semestre")) ELSE JsNull),
            "codigoMalla", fieldOrNull(match, "codigo")),
            "nombreMalla", fieldOrNull(match, "nombre")))

enrichRecord(record, match) ==
    Having(match,
        SetProp(SetProp(SetProp(SetProp(record,
            "enMalla", JsBool(Truthy(match))),
            "semestreCurricular",
                IF Truthy(match) THEN Number(Get(match, "semestre")) ELSE JsNull),
            "codigoMalla", fieldOrNull(match, "codigo")),
            "nombreMalla", fieldOrNull(match, "nombre")))

\* the map of enrichGradesWithTraza over the records, with the index built
enrichWithIndex(grades, index) ==
    Having(index,
    JsArr([i \in 1..Len(grades.items) |->
             enrichRecord(grades.items[i],
                          enrichMatch(grades.items[i], enrichCodeOf(grades.items[i]),
                                      index, enrichByCode(index.allCourses, 1, <<>>)))]))

enrichGradesWithTraza(grades, curriculum) ==
    IF ~Truthy(curriculum) \/ ~Truthy(grades) THEN grades
    ELSE enrichWithIndex(grades, buildMallaIndex(curriculum))

(***************************************************************************)
(* Numbers of the calculator: exact fractions [n, d] in lowest terms.      *)
(***************************************************************************)
RECURSIVE GCD(_, _)
GCD(a, b) == IF b = 0 THEN a ELSE GCD(b, a % b)

Rat(n, d) == LET g == GCD(abs(n), d) IN [n |-> n \div g, d |-> d \div g]

RInt(n) == [n |-> n, d |-> 1]
RAdd(a, b) == Rat(a.n * b.d + b.n * a.d, a.d * b.d)
RSub(a, b) == Rat(a.n * b.d - b.n * a.d, a.d * b.d)
RMul(a, b) == Rat(a.n * b.n, a.d * b.d)
RLess(a, b) == a.n * b.d < b.n * a.d
RLeq(a, b) == a.n * b.d <= b.n * a.d
RMin(a, b) == IF RLess(b, a) THEN b ELSE a
RMax(a, b) == IF RLess(a, b) THEN b ELSE a

\* Math.max(0, Math.min(1, x))
clamp01(x) == RMax(RInt(0), RMin(RInt(1), x))

\* Number.isFinite(x)
isFinite(x) == x.t = "num"

\* q[a] + ... + q[b], by halves
RECURSIVE sumRange(_, _, _)
sumRange(q, a, b) ==
    IF a > b THEN 0
    ELSE IF a = b THEN q[a]
    ELSE sumRange(q, a, (a + b) \div 2) + sumRange(q, (a + b) \div 2 + 1, b)

sumSeq(q, n) == sumRange(q, 1, n)

maxOf(S) == CHOOSE x \in S : \A y \in S : y <= x
minOf(S) == CHOOSE x \in S : \A y \in S : x <= y

\* Array.prototype.filter on a sequence
RECURSIVE filterRange(_, _, _, _)
filterRange(q, keep, a, b) ==
    IF a > b THEN <<>>
    ELSE IF a = b THEN (IF keep[a] THEN <<q[a]>> ELSE <<>>)
    ELSE filterRange(q, keep, a, (a + b) \div 2)
           \o filterRange(q, keep, (a + b) \div 2 + 1, b)

filterUpTo(q, keep, n) == filterRange(q, keep, 1, n)

\* the finite positive numbers of a sequence of numbers, as a set
positiveOf(nums) ==
    {nums[i].n : i \in {j \in 1..Len(nums) : isFinite(nums[j]) /\ nums[j].n > 0}}

\* nums.length ? Math.max(...nums) : otherwise
maxOr(nums, otherwise) == IF nums # {} THEN maxOf(nums) ELSE otherwise

(***************************************************************************)
(* Indicator Calculator: calculators.js.                                   *)
(***************************************************************************)
\* CRITICALITY_SCORES
CRITICALITY_SCORES ==
    [k \in {"alta", "muy alta", "muyalta", "media-alta", "media alta", "mediaalta",
            "media", "baja", "muy baja", "muybaja"} |->
        CASE k \in {"alta", "muy alta", "muyalta"} -> 5
          [] k \in {"media-alta", "media alta", "mediaalta"} -> 4
          [] k = "media" -> 3
          [] k = "baja" -> 2
          [] OTHER -> 1]

\* s.replace(/[^A-Z0-9]+/g, " ")
nonAlnumRunsToSpace(s) ==
    IF s = "" THEN ""
    ELSE join([i \in 1..Len(s) |->
                 IF IsAZ09(CharAt(s, i)) THEN CharAt(s, i)
                 ELSE IF i > 1 /\ ~IsAZ09(CharAt(s, i - 1)) THEN "" ELSE " "])

normalizeText(value) ==
    IF value.t \in {"null", "undef"} THEN ""
    ELSE trim(collapseSpaces(nonAlnumRunsToSpace(
             removeAccents(toUpperCase(trim(String(value)))))))

truthyEnMalla(v) ==
    \/ v = JsBool(TRUE)
    \/ v = JsNum(1)
    \/ toLowerCase(trim(String(JsNullish(v, JsStr("")))))
         \in {"true", "1", "si", "sí", "yes"}

\* getMallaRecords without the filter: every row counts
getMallaRecords_NoFilter(records) ==
    IF records.t # "arr" THEN <<>> ELSE records.items

\* the rows that are in the curriculum, as a sequence
getMallaRecords(records) ==
    IF records.t # "arr" THEN <<>>
    ELSE filterUpTo(records.items,
                    [i \in 1..Len(records.items) |->
                        truthyEnMalla(Get(records.items[i], "enMalla"))],
                    Len(records.items))

\* Number(s.indice_semestre ?? s.semestre ?? s.nivel ?? 0)
semesterNumber(s) ==
    Number(JsNullish(JsNullish(JsNullish(Get(s, "indice_semestre"), Get(s, "semestre")),
                               Get(s, "nivel")), JsNum(0)))

\* getMaxPlanSemester past semestres_totales: the list of semesters, or 10
maxOfSemestres(semestres) ==
    IF semestres.t = "arr" /\ Len(semestres.items) > 0
    THEN maxOr(positiveOf([i \in 1..Len(semestres.items) |->
                              semesterNumber(semestres.items[i])]),
               Len(semestres.items))
    ELSE 10

getMaxPlanSemester(curriculum) ==
    IF /\ Truthy(Get(curriculum, "semestres_totales"))
       /\ IsPositiveNumber(Number(Get(curriculum, "semestres_totales")))
    THEN Number(Get(curriculum, "semestres_totales")).n
    ELSE maxOfSemestres(Get(curriculum, "semestres"))

getTotalPlanCourses(curriculum) ==
    LET length(a) == IF a.t = "arr" THEN Len(a.items) ELSE 0
        total(semestres) ==
            IF semestres.t = "arr"
            THEN sumSeq([i \in 1..Len(semestres.items) |->
                            length(Get(semestres.items[i], "asignaturas"))],
                        Len(semestres.items))
            ELSE 0
    IN total(Get(curriculum, "semestres"))

\* scoreOfPercent with every range closed on its upper bound
scoreOfPercent_ClosedUpper(val) ==
    IF ~isFinite(val) \/ val.n < 0 THEN 1
    ELSE IF val.n <= 5 THEN 1
    ELSE IF val.n <= 10 THEN 2
    ELSE IF val.n <= 20 THEN 3
    ELSE IF val.n <= 30 THEN 4
    ELSE 5

\* the score of a percentage that Number has read
scoreOfPercent(val) ==
    IF ~isFinite(val) \/ val.n < 0 THEN 1
    ELSE IF val.n < 5 THEN 1
    ELSE IF val.n < 10 THEN 2
    ELSE IF val.n < 20 THEN 3
    ELSE IF val.n < 30 THEN 4
    ELSE 5

criticidadScoreFromPercent(percent) == scoreOfPercent(Number(percent))

\* Number.isFinite(val) && lo <= val && val <= hi
inRange(val, lo, hi) == isFinite(val) /\ lo <= val.n /\ val.n <= hi

\* Number.isFinite(val) && val >= lo
atLeast(val, lo) == isFinite(val) /\ val.n >= lo

\* isApproved by the grade alone
isApproved_GradeOnly(record) ==
    atLeast(Number(Get(record, "nota")), 40)

\* the row counts as approved; grades are in tenths
isApproved(record) ==
    \/ atLeast(Number(Get(record, "nota")), 40)
    \/ (Truthy(Get(record, "estado"))
        /\ includes(toLowerCase(String(Get(record, "estado"))), "aprob"))

\* the grades that count: Number(r.nota) finite and > 0, in tenths
gradesOf(records) ==
    filterUpTo([i \in 1..Len(records) |-> Number(Get(records[i], "nota"))],
               [i \in 1..Len(records) |->
                   IsPositiveNumber(Number(Get(records[i], "nota")))],
               Len(records))

calculateApprovalRate(studentRecords_) ==
    LET rate(records) ==
            IF Len(records) = 0 THEN RInt(0)
            ELSE Rat(Cardinality({i \in 1..Len(records) : isApproved(records[i])}),
                     Len(records))
    IN rate(getMallaRecords(studentRecords_))

calculatePerformance(studentRecords_) ==
    LET average(grades) ==
            IF Len(grades) = 0 THEN RInt(0)
            ELSE Rat(sumSeq([i \in 1..Len(grades) |-> grades[i].n], Len(grades)),
                     Len(grades) * 70)
        performance(records) ==
            IF Len(records) = 0 THEN RInt(0) ELSE average(gradesOf(records))
    IN performance(getMallaRecords(studentRecords_))

\* (y * 2) + Math.max(0, Math.min(1, s - 1))
semesterIndex(y, s) == (y * 2) + (IF s - 1 < 0 THEN 0 ELSE IF s - 1 > 1 THEN 1 ELSE s - 1)

\* the rows of calculatePermanence with a year from 2000 to 2100
validRecords(records) ==
    filterUpTo(records,
               [i \in 1..Len(records) |->
                   inRange(parseInt(Get(records[i], "anio")), 2000, 2100)],
               Len(records))

calculatePermanence(studentRecords_) ==
    LET permanence(indices) ==
            clamp01(RSub(RInt(1),
                         RMul(RMax(RInt(0),
                                   RSub(Rat(maxOf(indices) - minOf(indices) + 1, 2),
                                        RInt(5))),
                              Rat(1, 5))))
        ofValid(valid) ==
            IF Len(valid) = 0 THEN RInt(1)
            ELSE permanence({semesterIndex(parseInt(Get(valid[i], "anio")).n,
                                           parseIntOr(Get(valid[i], "semestre"), 1)) :
                                i \in 1..Len(valid)})
        ofRecords(records) ==
            IF Len(records) = 0 THEN RInt(1) ELSE ofValid(validRecords(records))
    IN ofRecords(getMallaRecords(studentRecords_))

\* the key calculateRepetition groups the rows by
repetitionKey(r) ==
    JsOr(JsOr(JsOr(Get(r, "codigoMalla"), Get(r, "codigoAsignatura")),
              Get(r, "CODIGO_ASIGNATURA")),
         JsStr(normalizeText(JsOr(Get(r, "nombreMalla"), Get(r, "asignatura")))))

\* Math.max(0, n)
positivePart(n) == IF n > 0 THEN n ELSE 0

\* totalRepetitions counting one repetition for each course taken again
totalRepetitions_OnePerCourse(keys) ==
    sumSeq([i \in 1..Len(keys) |->
               IF /\ Truthy(keys[i])
                  /\ \A j \in 1..(i - 1) : keys[j] # keys[i]
                  /\ \E j \in (i + 1)..Len(keys) : keys[j] = keys[i]
               THEN 1 ELSE 0],
           Len(keys))

\* totalRepetitions: recordsByCourse has one list per truthy key, in the order of
\* the first row with the key; each list adds its length less one
totalRepetitions(keys) ==
    sumSeq([i \in 1..Len(keys) |->
               IF Truthy(keys[i]) /\ \A j \in 1..(i - 1) : keys[j] # keys[i]
               THEN positivePart(Cardinality({j \in 1..Len(keys) : keys[j] = keys[i]}) - 1)
               ELSE 0],
           Len(keys))

calculateRepetition(studentRecords_) ==
    LET repetition(records) ==
            IF Len(records) = 0 THEN RInt(1)
            ELSE clamp01(RSub(RInt(1),
                    Rat(totalRepetitions([i \in 1..Len(records) |->
                                             repetitionKey(records[i])]),
                        Len(records))))
    IN repetition(getMallaRecords(studentRecords_))

getCriticalityScore(item) ==
    LET intento(a, b, c) ==
            JsNullish(JsNullish(JsNullish(Get(item, a), Get(item, b)), Get(item, c)),
                      JsNull)
        present(x) == x # JsNull /\ x # JsUndef /\ x # JsStr("")
        category(cat) ==
            IF cat \in DOMAIN CRITICALITY_SCORES THEN CRITICALITY_SCORES[cat] ELSE 1
        score(intento4, intento3, intento2, catRaw) ==
            IF present(intento4) THEN criticidadScoreFromPercent(intento4)
            ELSE IF present(intento3) THEN criticidadScoreFromPercent(intento3)
            ELSE IF present(intento2) THEN criticidadScoreFromPercent(intento2)
            ELSE category(removeSpaces(toLowerCase(normalizeText(catRaw))))
    IN score(intento("intento4", "Porcentaje_4", "Porcentaje 4"),
             intento("intento3", "Porcentaje_3", "Porcentaje 3"),
             intento("intento2", "Porcentaje_2", "Porcentaje 2"),
             JsNullish(JsNullish(JsNullish(JsNullish(JsNullish(
                 Get(item, "criticidad"), Get(item, "categoria")),
                 Get(item, "Categoría")), Get(item, "Categoria")),
                 Get(item, "CATEGORIA")), JsStr("")))

\* one item of ingestList goes into critByCode and critByName
ingestItem(maps, code, nameNorm, score) ==
    [critByCode |-> IF code # "" THEN MapSet(maps.critByCode, code, score)
                    ELSE maps.critByCode,
     critByName |-> IF nameNorm # "" THEN MapSet(maps.critByName, nameNorm, score)
                    ELSE maps.critByName]

\* ingestList: the items of one list go into critByCode and critByName
RECURSIVE ingestList(_, _, _)
ingestList(maps, list, i) ==
    IF Evaluated(maps) /\ (list.t # "arr" \/ i > Len(list.items)) THEN maps
    ELSE ingestList(
            ingestItem(maps,
                removeSpaces(normalizeText(JsNullish(JsNullish(JsNullish(JsNullish(
                    Get(list.items[i], "codigo"), Get(list.items[i], "sigla")),
                    Get(list.items[i], "CODIGO_ASIGNATURA")),
                    Get(list.items[i], "codigoAsignatura")), JsStr("")))),
                normalizeText(JsNullish(JsNullish(JsNullish(JsNullish(
                    Get(list.items[i], "Asignatura"), Get(list.items[i], "asignatura")),
                    Get(list.items[i], "nombre")), Get(list.items[i], "NOMBRE")),
                    JsStr(""))),
                getCriticalityScore(list.items[i])),
            list, i + 1)

\* lists.forEach(v => ingestList(v))
RECURSIVE ingestLists(_, _, _)
ingestLists(maps, lists, i) ==
    IF Evaluated(maps) /\ i > Len(lists) THEN maps
    ELSE ingestLists(ingestList(maps, lists[i], 1), lists, i + 1)

\* the lookups calculateCriticality builds from the criticality table: an array
\* is one list, an object gives the lists Object.values returns
criticalityMaps(table) ==
    ingestLists([critByCode |-> <<>>, critByName |-> <<>>],
                IF ~Truthy(table) THEN <<>>
                ELSE IF table.t = "arr" THEN <<table>>
                ELSE IF table.t = "obj"
                     THEN [i \in 1..Len(table.props) |-> table.props[i].v]
                     ELSE <<>>,
                1)

\* the code and the normalized name calculateCriticality reads from a row
criticalityCourse(r) ==
    [code |-> removeSpaces(normalizeText(
                  JsOr(JsOr(Get(r, "codigoMalla"), Get(r, "codigoAsignatura")),
                       Get(r, "CODIGO_ASIGNATURA")))),
     nameNorm |-> normalizeText(
                  JsOr(JsOr(Get(r, "nombreMalla"), Get(r, "nombreAsignatura")),
                       Get(r, "asignatura")))]

criticalityKey(c) == IF c.code # "" THEN c.code ELSE c.nameNorm

\* criticalityScoreOf looking the name up before the code
criticalityScoreOf_NameFirst(c, maps) ==
    IF c.nameNorm # "" /\ MapHas(maps.critByName, c.nameNorm)
    THEN MapGet(maps.critByName, c.nameNorm)
    ELSE IF c.code # "" /\ MapHas(maps.critByCode, c.code)
    THEN MapGet(maps.critByCode, c.code)
    ELSE 1

\* the score of one unique course
criticalityScoreOf(c, maps) ==
    IF c.code # "" /\ MapHas(maps.critByCode, c.code)
    THEN MapGet(maps.critByCode, c.code)
    ELSE IF c.nameNorm # "" /\ MapHas(maps.critByName, c.nameNorm)
    THEN MapGet(maps.critByName, c.nameNorm)
    ELSE 1

calculateCriticality(studentRecords_, table) ==
    LET \* uniqueCourses: the first row of each key
        isFirst(courses, i) ==
            /\ criticalityKey(courses[i]) # ""
            /\ \A j \in 1..(i - 1) :
                  criticalityKey(courses[j]) # criticalityKey(courses[i])
        value(count, totalCritSum) ==
            IF count = 0 THEN Rat(1, 2) ELSE clamp01(Rat(totalCritSum, 5 * count))
        ofCourses(courses, maps) ==
            value(Cardinality({i \in 1..Len(courses) : isFirst(courses, i)}),
                  sumSeq([i \in 1..Len(courses) |->
                             IF isFirst(courses, i)
                             THEN criticalityScoreOf(courses[i], maps) ELSE 0],
                         Len(courses)))
        ofRecords(records, maps) ==
            IF Evaluated(maps) /\ Len(records) = 0 THEN Rat(1, 2)
            ELSE ofCourses([i \in 1..Len(records) |-> criticalityCourse(records[i])],
                           maps)
    IN ofRecords(getMallaRecords(studentRecords_), criticalityMaps(table))

\* ultimoSemestreAlcanzado of the rows that are in the curriculum
lastSemester(records) ==
    IF Len(records) = 0 THEN 0
    ELSE maxOr(positiveOf([i \in 1..Len(records) |->
                              Number(Get(records[i], "semestreCurricular"))]),
               0)

\* the last curricular semester reached, which calculateRelevance also stores
\* on calculateExitIndicator.ultimoSemestreAlcanzado
relevanceSemester(studentRecords_) == lastSemester(getMallaRecords(studentRecords_))

\* n || otherwise
numberOr(n, otherwise) == IF n # 0 THEN n ELSE otherwise

calculateRelevance(studentRecords_, curriculum) ==
    LET relevance(records, maxPlan) ==
            IF Len(records) = 0 THEN RInt(0)
            ELSE IF maxPlan > 0 THEN RMin(Rat(lastSemester(records), maxPlan), RInt(1))
            ELSE RInt(0)
    IN relevance(getMallaRecords(studentRecords_),
                 numberOr(getMaxPlanSemester(curriculum), 10))

calculateDemographic(demographic) ==
    IF ~Truthy(demographic) THEN RInt(0)
    ELSE LET field(k) ==
                 toLowerCase(String(IF Get(demographic, k) = JsUndef THEN JsStr("")
                                    ELSE Get(demographic, k)))
             G(g) == IF g \in {"mujer", "female", "otro", "other"} THEN 1 ELSE 0
             C(c) == IF c # "" /\ ~includes(c, "santiago") THEN 1 ELSE 0
             L(t) == IF t \in {"publico", "público", "public", "municipal",
                               "subvencionado"}
                     THEN 1 ELSE 0
         IN Rat(G(field("genero")) + C(field("ciudad")) + L(field("tipoColegio")), 3)

ComponentNames == <<"approvalRate", "performance", "permanence", "repetition",
                    "criticality", "relevance", "demographic">>

\* the weight written in each component of calculateExitIndicator
weightOf ==
    [c \in {ComponentNames[i] : i \in 1..Len(ComponentNames)} |->
        CASE c = "approvalRate" -> Rat(25, 100)
          [] c \in {"performance", "permanence"} -> Rat(20, 100)
          [] c \in {"repetition", "criticality", "relevance"} -> Rat(10, 100)
          [] OTHER -> Rat(5, 100)]

\* q[a] + ... + q[b] in fractions, by halves
RECURSIVE sumRatRange(_, _, _)
sumRatRange(q, a, b) ==
    IF a > b THEN RInt(0)
    ELSE IF a = b THEN q[a]
    ELSE RAdd(sumRatRange(q, a, (a + b) \div 2), sumRatRange(q, (a + b) \div 2 + 1, b))

sumRat(q, n) == sumRatRange(q, 1, n)

\* the key of the unique-course and approved-course statistics
statsKey(r) ==
    JsOr(JsOr(JsOr(Get(r, "codigoMalla"), Get(r, "codigoAsignatura")),
              Get(r, "CODIGO_ASIGNATURA")), Get(r, "nombreMalla"))

\* avgGrade.toFixed(2), in hundredths; grades are in tenths
averageGradeHundredths(records) ==
    LET average(grades, total) ==
            IF Len(grades) = 0 THEN 0
            ELSE (2 * 10 * total + Len(grades)) \div (2 * Len(grades))
        ofGrades(grades) ==
            average(grades, sumSeq([i \in 1..Len(grades) |-> grades[i].n], Len(grades)))
    IN ofGrades(gradesOf(records))

\* compValues: the seven component values, by name
componentValues(studentRecords_, table, curriculum, demographic) ==
    [c \in DOMAIN weightOf |->
        CASE c = "approvalRate" -> calculateApprovalRate(studentRecords_)
          [] c = "performance" -> calculatePerformance(studentRecords_)
          [] c = "permanence" -> calculatePermanence(studentRecords_)
          [] c = "repetition" -> calculateRepetition(studentRecords_)
          [] c = "criticality" -> calculateCriticality(studentRecords_, table)
          [] c = "relevance" -> calculateRelevance(studentRecords_, curriculum)
          [] OTHER -> calculateDemographic(demographic)]

\* components, with c.weightedValue = c.value * c.weight written in each
componentsOf(compValue) ==
    Having(compValue,
        [c \in DOMAIN weightOf |->
            [value |-> compValue[c], weight |-> weightOf[c],
             weightedValue |-> RMul(compValue[c], weightOf[c])]])

\* finalPercentage = totalScore * 100
finalPercentageOf(components) ==
    RMul(sumRat([i \in 1..Len(ComponentNames) |->
                    components[ComponentNames[i]].weightedValue],
                Len(ComponentNames)),
         RInt(100))

\* the stats of calculateExitIndicator for the rows that are in the curriculum
statsOf(records, totalMallaCount, planTotal, currentSemester) ==
    [totalCourses |-> totalMallaCount,
     approvedCourses |->
        Cardinality({statsKey(records[i]) :
                        i \in {j \in 1..Len(records) : isApproved(records[j])}}),
     averageGrade |-> averageGradeHundredths(records),
     currentSemester |-> currentSemester,
     coveragePct |-> IF planTotal > 0 THEN Rat(totalMallaCount * 100, planTotal)
                     ELSE RInt(0)]

\* indicatorOf with the two thresholds taken as strict
indicatorOf_StrictThresholds(mallaName, components, finalPercentage, stats) ==
    [components |-> components,
     totalScore |-> finalPercentage,
     level |-> IF RLess(RInt(80), finalPercentage) THEN "Alto"
               ELSE IF RLess(RInt(60), finalPercentage) THEN "Medio" ELSE "Bajo",
     levelClass |-> IF RLess(RInt(80), finalPercentage) THEN "high"
                    ELSE IF RLess(RInt(60), finalPercentage) THEN "medium" ELSE "low",
     malla |-> mallaName,
     stats |-> stats]

\* what calculateExitIndicator returns for a list that is not empty
indicatorOf(mallaName, components, finalPercentage, stats) ==
    [components |-> components,
     totalScore |-> finalPercentage,
     level |-> IF RLeq(RInt(80), finalPercentage) THEN "Alto"
               ELSE IF RLeq(RInt(60), finalPercentage) THEN "Medio" ELSE "Bajo",
     levelClass |-> IF RLeq(RInt(80), finalPercentage) THEN "high"
                    ELSE IF RLeq(RInt(60), finalPercentage) THEN "medium" ELSE "low",
     malla |-> mallaName,
     stats |-> stats]

\* stashAfterRelevance leaving the property alone when no row is in the curriculum
stashAfterRelevance_KeepWhenEmpty(stash, studentRecords_) ==
    IF Len(getMallaRecords(studentRecords_)) = 0 THEN stash
    ELSE JsNum(relevanceSemester(studentRecords_))

\* calculateExitIndicator.ultimoSemestreAlcanzado after calculateRelevance has
\* run on the list: written on both paths, whatever stash an earlier
\* invocation left there
stashAfterRelevance(stash, studentRecords_) ==
    JsNum(relevanceSemester(studentRecords_))

\* calculateExitIndicator.ultimoSemestreAlcanzado once the invocation is over:
\* calculateRelevance is reached only for a list that is not empty
stashAfterIndicator(stash, studentRecords_) ==
    IF studentRecords_.t # "arr" \/ Len(studentRecords_.items) = 0 THEN stash
    ELSE stashAfterRelevance(stash, studentRecords_)

\* calculateExitIndicator, invoked when the function object holds stash
calculateExitIndicatorFrom(stash, studentRecords_, table, curriculum, demographic) ==
    IF studentRecords_.t # "arr" \/ Len(studentRecords_.items) = 0
    THEN [components |-> <<>>,
          totalScore |-> RInt(0),
          level |-> "Bajo",
          levelClass |-> "low",
          malla |-> JsStr("default"),
          stats |-> [totalCourses |-> 0, approvedCourses |-> 0, averageGrade |-> 0,
                     currentSemester |-> 0, coveragePct |-> RInt(0)]]
    ELSE LET stats(records) ==
                 statsOf(records,
                         Cardinality({statsKey(records[i]) : i \in 1..Len(records)}),
                         getTotalPlanCourses(curriculum),
                         JsOr(stashAfterRelevance(stash, studentRecords_), JsNum(0)).n)
             result(components) ==
                 Having(components,
                     indicatorOf(JsOr(Get(studentRecords_.items[1], "malla"),
                                      JsStr("default")),
                                 components, finalPercentageOf(components),
                                 stats(getMallaRecords(studentRecords_))))
         IN result(componentsOf(componentValues(studentRecords_, table, curriculum,
                                                demographic)))

\* calculateExitIndicator on a function object nothing has been stashed on yet
calculateExitIndicator(studentRecords_, table, curriculum, demographic) ==
    calculateExitIndicatorFrom(JsUndef, studentRecords_, table, curriculum, demographic)

(***************************************************************************)
(* Specification of the normalizer: a text and a flag are drawn, and the   *)
(* normalizer is applied to the text and then to its own result.           *)
(***************************************************************************)
NormChars == {"a", "B", "é", " ", "-", "1"}

RECURSIVE Texts(_)
Texts(n) ==
    IF n = 0 THEN {""}
    ELSE LET shorter == Texts(n - 1)
         IN shorter \cup {s \o c : s \in {x \in shorter : Len(x) = n - 1}, c \in NormChars}

NormInputs == {JsStr(s) : s \in Texts(MaxLen)} \cup {JsNull, JsUndef}

NormIdle == nText = NotYet /\ nFlag = NotYet /\ nOut = NotYet

MallaIdle ==
    /\ mallaJson = NotYet
    /\ mallaIndex = NotYet
    /\ reIndex = NotYet
    /\ matched = NotYet
    /\ gradesData = NotYet
    /\ enriched = NotYet

CalcIdle ==
    /\ studentRecords = NotYet
    /\ criticalityData = NotYet
    /\ curriculumData = NotYet
    /\ demographicData = NotYet
    /\ indicator = NotYet
    /\ compValues = NotYet
    /\ ultimoSemestreAlcanzado = NotYet
    /\ stashAtCall = NotYet
    /\ audited = NotYet

ScoreIdle == critItem = NotYet /\ critScore = NotYet

TravIdle == heap = <<>> /\ stack = <<>> /\ travIndex = NotYet /\ deepest = -1

AppIdle ==
    /\ appGradesData = JsArr(<<>>)
    /\ appCurriculumData = JsNull
    /\ effectPending = FALSE
    /\ writes = 0
    /\ loads = 0

InitNormalize ==
    /\ nText \in NormInputs
    /\ nFlag \in BOOLEAN
    /\ nOut = <<>>
    /\ MallaIdle
    /\ CalcIdle
    /\ ScoreIdle
    /\ TravIdle
    /\ AppIdle

\* x -> normalize(x, f)
Normalize ==
    /\ nOut = <<>>
    /\ nOut' = <<normalizeCourseName(nText, nFlag)>>
    /\ UNCHANGED <<nText, nFlag>>
    /\ UNCHANGED <<mallaVars, calcVars, scoreVars, travVars, appVars>>

\* normalize(x, f) -> normalize(normalize(x, f), f)
NormalizeAgain ==
    /\ Len(nOut) = 1
    /\ nOut' = Append(nOut, normalizeCourseName(JsStr(nOut[1]), nFlag))
    /\ UNCHANGED <<nText, nFlag>>
    /\ UNCHANGED <<mallaVars, calcVars, scoreVars, travVars, appVars>>

NextNormalize == Normalize \/ NormalizeAgain

SpecNormalize == InitNormalize /\ [][NextNormalize]_vars

\* C1: normalize is idempotent: for every text x and either flag,
\* normalize(normalize(x, f), f) = normalize(x, f).
C1_NormalizeIdempotent == Len(nOut) = 2 => nOut[2] = nOut[1]

(***************************************************************************)
(* Specification of the indexer, the matcher and the enricher: a           *)
(* curriculum document is drawn; it is indexed; then the index is rebuilt  *)
(* from its own allCourses, or one record is matched, or a record list is  *)
(* enriched.                                                               *)
(***************************************************************************)
SeqsUpTo(S, n) == UNION {[1..k -> S] : k \in 0..n}

\* a well-formed course node; sem = 0 leaves the semester field out
Course(code, name, sem) ==
    JsObj(<<Prop("codigo", JsStr(code)), Prop("nombre", JsStr(name))>>
          \o (IF sem = 0 THEN <<>> ELSE <<Prop("semestre", JsNum(sem))>>))

CourseCodes == {"K1", "k-2"}
CourseNames == {"Workshop I", "Workshop II"}
\* every code with every name, and one course that states its own semester
CoursePool ==
    {Course(c, n, 0) : c \in CourseCodes, n \in CourseNames}
    \cup {Course("k-2", "Workshop II", 2)}

\* no document, a flat array of courses, courses under a "semestre 3" key
Docs ==
    {JsNull}
    \cup {JsArr(cs) : cs \in SeqsUpTo(CoursePool, MaxCourses)}
    \cup {JsObj(<<Prop("semestre 3", JsArr(cs))>>) : cs \in SeqsUpTo(CoursePool, MaxCourses)}

\* a row of the academic history, as the file parsers hand it over
Record(code, name) ==
    JsObj(<<Prop("codigoAsignatura", JsStr(code)), Prop("nombreAsignatura", JsStr(name)),
            Prop("nota", JsNum(42))>>)

RecordCodes == {"", "K1", "k 2"}
RecordNames == {"", "Workshop I", "Workshop II", "Workshop"}

RecordPool == {Record(c, n) : c \in RecordCodes, n \in RecordNames}

\* the rows the enriched lists are made of
GradePool == {Record("K1", "Workshop II"), Record("k 2", ""), Record("", "Workshop I"),
              Record("", "Wor")}

GradeLists == {JsArr(rs) : rs \in SeqsUpTo(GradePool, MaxRecords)}

InitMalla ==
    /\ mallaJson \in Docs
    /\ mallaIndex = NotYet
    /\ reIndex = NotYet
    /\ matched = NotYet
    /\ gradesData = NotYet
    /\ enriched = NotYet
    /\ NormIdle
    /\ CalcIdle
    /\ ScoreIdle
    /\ TravIdle
    /\ AppIdle

Fresh == reIndex = NotYet /\ matched = NotYet /\ enriched = NotYet

BuildIndex ==
    /\ mallaIndex = NotYet
    /\ mallaIndex' = buildMallaIndex(mallaJson)
    /\ UNCHANGED <<mallaJson, reIndex, matched, gradesData, enriched>>
    /\ UNCHANGED <<normVars, calcVars, scoreVars, travVars, appVars>>

\* the index of the index's own allCourses, wrapped as a flat array
ReIndex ==
    /\ mallaIndex # NotYet
    /\ Fresh
    /\ reIndex' = buildMallaIndex(JsArr(mallaIndex.allCourses))
    /\ UNCHANGED <<mallaJson, mallaIndex, matched, gradesData, enriched>>
    /\ UNCHANGED <<normVars, calcVars, scoreVars, travVars, appVars>>

Match ==
    /\ mallaIndex # NotYet
    /\ Fresh
    /\ \E r \in RecordPool :
          matched' = [record |-> r, entry |-> matchAsignaturaToMalla(r, mallaIndex)]
    /\ UNCHANGED <<mallaJson, mallaIndex, reIndex, gradesData, enriched>>
    /\ UNCHANGED <<normVars, calcVars, scoreVars, travVars, appVars>>

Enrich ==
    /\ mallaIndex # NotYet
    /\ Fresh
    /\ \E g \in GradeLists :
          /\ gradesData' = g
          /\ enriched' = enrichGradesWithTraza(g, mallaJson)
    /\ UNCHANGED <<mallaJson, mallaIndex, reIndex, matched>>
    /\ UNCHANGED <<normVars, calcVars, scoreVars, travVars, appVars>>

NextMalla == BuildIndex \/ ReIndex \/ Match \/ Enrich

SpecMalla == InitMalla /\ [][NextMalla]_vars

(***************************************************************************)
(* Properties of the indexer, the matcher and the enricher.                *)
(***************************************************************************)
normCodeOf(entry) == normalizeCourseName(Get(entry, "codigo"), TRUE)
normNameOf(entry) == normalizeCourseName(Get(entry, "nombre"), FALSE)

\* every entry the index holds, in allCourses or as a value of either lookup
EntriesOf(index) ==
    {index.allCourses[i] : i \in 1..Len(index.allCourses)}
    \cup {index.byCode[i].v : i \in 1..Len(index.byCode)}
    \cup {index.byName[i].v : i \in 1..Len(index.byName)}

\* the record's code is the normalized code of some curriculum entry
RecordCodeIsEntryCode ==
    /\ matched # NotYet
    /\ recordCodeOf(matched.record) # ""
    /\ \E e \in EntriesOf(mallaIndex) : normCodeOf(e) = recordCodeOf(matched.record)

\* C2: a record whose normalized code is the normalized code of a curriculum
\* entry is resolved to the entry stored in byCode under that code, whatever
\* its name is.
C2_CodeMatchFirst ==
    RecordCodeIsEntryCode =>
        /\ MapHas(mallaIndex.byCode, recordCodeOf(matched.record))
        /\ matched.entry = MapGet(mallaIndex.byCode, recordCodeOf(matched.record))

\* a record resolved by its code while its name is the exact name of another entry
C2_Witness ==
    /\ RecordCodeIsEntryCode
    /\ MapHas(mallaIndex.byName, recordNameOf(matched.record))
    /\ MapGet(mallaIndex.byName, recordNameOf(matched.record))
         # MapGet(mallaIndex.byCode, recordCodeOf(matched.record))
    /\ matched.entry = MapGet(mallaIndex.byCode, recordCodeOf(matched.record))

\* the record reached the fuzzy stage with the normalized name recordName
FuzzyStageWith(recordName) ==
    /\ matched # NotYet
    /\ recordNameOf(matched.record) = recordName
    /\ ~(recordCodeOf(matched.record) # ""
         /\ MapHas(mallaIndex.byCode, recordCodeOf(matched.record)))
    /\ ~MapHas(mallaIndex.byName, recordName)

\* C3: a record named 'Workshop I' whose exact-name entry is absent is never
\* resolved by the fuzzy stage to the entry 'Workshop II', nor 'Workshop II'
\* to 'Workshop I'.
C3_NoCrossLevelMatch ==
    \A pair \in {<<"WORKSHOP I", "WORKSHOP II">>, <<"WORKSHOP II", "WORKSHOP I">>} :
        (FuzzyStageWith(pair[1]) /\ matched.entry # JsNull)
            => normNameOf(matched.entry) # pair[2]

\* the document is a flat array of course objects that carry a code and a name
FlatWellFormed(doc) ==
    /\ doc.t = "arr"
    /\ \A i \in 1..Len(doc.items) :
          /\ doc.items[i].t = "obj"
          /\ Truthy(Get(doc.items[i], "codigo"))
          /\ Truthy(Get(doc.items[i], "nombre"))

DistinctCodes(doc) ==
    \A i, j \in 1..Len(doc.items) :
        i # j => Get(doc.items[i], "codigo") # Get(doc.items[j], "codigo")

DistinctNormalizedCodesAndNames(doc) ==
    \A i, j \in 1..Len(doc.items) :
        i # j =>
            /\ normalizeCourseName(Get(doc.items[i], "codigo"), TRUE)
                 # normalizeCourseName(Get(doc.items[j], "codigo"), TRUE)
            /\ normalizeCourseName(Get(doc.items[i], "nombre"), FALSE)
                 # normalizeCourseName(Get(doc.items[j], "nombre"), FALSE)

\* allCourses holds one entry per course object of the document, in order, and
\* each is the value of byCode under its own normalized code
OneEntryPerCourse ==
    /\ Len(mallaIndex.allCourses) = Len(mallaJson.items)
    /\ \A i \in 1..Len(mallaIndex.allCourses) :
          LET e == mallaIndex.allCourses[i]
          IN /\ Get(e, "original") = mallaJson.items[i]
             /\ normCodeOf(e) # ""
             /\ MapHas(mallaIndex.byCode, normCodeOf(e))
             /\ MapGet(mallaIndex.byCode, normCodeOf(e)) = e

\* C4 as stated: for a flat array of N well-formed course objects with pairwise
\* distinct codes, allCourses has length N and each entry is the value of
\* byCode under its own normalized code.
C4_DistinctCodesGiveNEntries ==
    (mallaIndex # NotYet /\ mallaJson # JsNull /\ FlatWellFormed(mallaJson)
       /\ DistinctCodes(mallaJson))
        => OneEntryPerCourse

\* C4 amended: the same, for course objects whose normalized codes are pairwise
\* distinct and whose normalized names are pairwise distinct.
C4_DistinctCodesAndNamesGiveNEntries ==
    (mallaIndex # NotYet /\ mallaJson # JsNull /\ FlatWellFormed(mallaJson)
       /\ DistinctNormalizedCodesAndNames(mallaJson))
        => OneEntryPerCourse

\* two courses with distinct codes and names have been indexed
C4_Witness ==
    /\ mallaIndex # NotYet
    /\ mallaJson # JsNull
    /\ FlatWellFormed(mallaJson)
    /\ DistinctNormalizedCodesAndNames(mallaJson)
    /\ Len(mallaJson.items) = 2
    /\ Len(mallaIndex.allCourses) = 2

\* same canonical code, canonical name and curricular semester
EquivalentEntries(a, b) ==
    /\ Get(a, "codigo") = Get(b, "codigo")
    /\ Get(a, "nombre") = Get(b, "nombre")
    /\ Get(a, "semestre") = Get(b, "semestre")

\* every key of lookup resolves in lookup2 to an equivalent entry
ResolvesAlike(lookup, lookup2) ==
    \A i \in 1..Len(lookup) :
        /\ MapHas(lookup2, lookup[i].k)
        /\ EquivalentEntries(MapGet(lookup2, lookup[i].k), lookup[i].v)

\* C5: the index built from allCourses of an index resolves every code key and
\* every name key of that index to an equivalent entry.
C5_RoundTrip ==
    reIndex # NotYet =>
        /\ ResolvesAlike(mallaIndex.byCode, reIndex.byCode)
        /\ ResolvesAlike(mallaIndex.byName, reIndex.byName)

\* the four enrichment fields of a record are those of the match m
FieldsFrom(e, m) ==
    /\ Get(e, "enMalla") = JsBool(m # JsNull)
    /\ Get(e, "semestreCurricular") = (IF m # JsNull THEN Get(m, "semestre") ELSE JsNull)
    /\ Get(e, "codigoMalla") = (IF m # JsNull THEN Get(m, "codigo") ELSE JsNull)
    /\ Get(e, "nombreMalla") = (IF m # JsNull THEN Get(m, "nombre") ELSE JsNull)

\* C6: for every record and every curriculum document that is present, the
\* enrichment fields are those of the entry that the matcher returns for the
\* record on the index of the document, and enMalla tells whether there is one.
C6_EnrichIsMatch ==
    (enriched # NotYet /\ Truthy(mallaJson)) =>
        \A i \in 1..Len(gradesData.items) :
            FieldsFrom(enriched.items[i],
                       matchAsignaturaToMalla(gradesData.items[i], mallaIndex))

EnrichmentFields == {"enMalla", "semestreCurricular", "codigoMalla", "nombreMalla"}

\* C7: every record returned by the enricher carries the four enrichment
\* fields, also for a missing or empty curriculum document; a record without a
\* match has enMalla = false and the other three null.
C7_FieldsAlwaysPresent ==
    enriched # NotYet =>
        \A i \in 1..Len(enriched.items) :
            LET e == enriched.items[i]
            IN /\ \A f \in EnrichmentFields : HasKey(e, f)
               /\ Get(e, "enMalla") \in {JsBool(TRUE), JsBool(FALSE)}
               /\ Get(e, "enMalla") = JsBool(FALSE) =>
                     /\ Get(e, "semestreCurricular") = JsNull
                     /\ Get(e, "codigoMalla") = JsNull
                     /\ Get(e, "nombreMalla") = JsNull

(***************************************************************************)
(* Specification of the calculator: the records of one student, a          *)
(* criticality table, a curriculum document and demographic data are       *)
(* drawn; the indicator is calculated, and the component functions are     *)
(* called one by one.                                                      *)
(***************************************************************************)
\* a row as the enricher leaves it; flag "absent" is a row that was not enriched
EnrichedRow(code, nota, flag) ==
    JsObj(<<Prop("codigoAsignatura", JsStr(code)),
            Prop("nombreAsignatura", JsStr(IF code = "K1" THEN "Workshop I" ELSE "Workshop II")),
            Prop("nota", JsNum(nota)),
            Prop("anio", JsNum(IF code = "K1" THEN 2017 ELSE 2023)),
            Prop("semestre", JsNum(1))>>
          \o (IF flag = "absent" THEN <<>>
              ELSE IF flag = "true"
              THEN <<Prop("enMalla", JsBool(TRUE)),
                     Prop("semestreCurricular", JsNum(IF code = "K1" THEN 3 ELSE 6)),
                     Prop("codigoMalla", JsStr(code)),
                     Prop("nombreMalla",
                          JsStr(IF code = "K1" THEN "Workshop I" ELSE "Workshop II"))>>
              ELSE <<Prop("enMalla", JsBool(FALSE)),
                     Prop("semestreCurricular", JsNull),
                     Prop("codigoMalla", JsNull),
                     Prop("nombreMalla", JsNull)>>))

RowPool == {EnrichedRow(c, n, f) : c \in {"K1", "K2"}, n \in {35, 42},
                                   f \in {"true", "false", "absent"}}

StudentRecordLists == {JsArr(rs) : rs \in SeqsUpTo(RowPool, MaxRecords)}

CriticalityTables ==
    {JsNull,
     JsArr(<<JsObj(<<Prop("codigo", JsStr("K1")), Prop("criticidad", JsStr("Alta"))>>),
             JsObj(<<Prop("codigo", JsStr("K2")), Prop("intento2", JsNum(7))>>)>>)}

PlanDocs ==
    {JsNull,
     JsObj(<<Prop("semestres",
                  JsArr(<<JsObj(<<Prop("indice_semestre", JsNum(8)),
                                  Prop("asignaturas",
                                       JsArr(<<Course("K1", "Workshop I", 0),
                                               Course("K2", "Workshop II", 0)>>))>>)>>))>>)}

DemographicInputs ==
    {JsNull,
     JsObj(<<Prop("genero", JsStr("Mujer")), Prop("ciudad", JsStr("Santiago")),
             Prop("tipoColegio", JsStr("Municipal"))>>)}

InitCalc ==
    /\ studentRecords \in StudentRecordLists
    /\ criticalityData \in CriticalityTables
    /\ curriculumData \in PlanDocs
    /\ demographicData \in DemographicInputs
    /\ indicator = NotYet
    /\ compValues = NotYet
    /\ ultimoSemestreAlcanzado = JsUndef
    /\ stashAtCall = NotYet
    /\ audited = NotYet
    /\ NormIdle
    /\ MallaIdle
    /\ ScoreIdle
    /\ TravIdle
    /\ AppIdle

\* calculateExitIndicator(studentRecords, criticalityData, curriculumData,
\* demographicData); calculateRelevance is reached only for a non-empty list
Calculate ==
    /\ indicator = NotYet
    /\ indicator' = calculateExitIndicatorFrom(ultimoSemestreAlcanzado, studentRecords,
                                               criticalityData, curriculumData,
                                               demographicData)
    /\ ultimoSemestreAlcanzado' =
          stashAfterIndicator(ultimoSemestreAlcanzado, studentRecords)
    /\ stashAtCall' = ultimoSemestreAlcanzado
    /\ UNCHANGED <<studentRecords, criticalityData, curriculumData, demographicData,
                   compValues, audited>>
    /\ UNCHANGED <<normVars, mallaVars, scoreVars, travVars, appVars>>

\* the seven exported component functions, each called on the same inputs
CallComponents ==
    /\ compValues = NotYet
    /\ compValues' =
          [approvalRate |-> calculateApprovalRate(studentRecords),
           performance |-> calculatePerformance(studentRecords),
           permanence |-> calculatePermanence(studentRecords),
           repetition |-> calculateRepetition(studentRecords),
           criticality |-> calculateCriticality(studentRecords, criticalityData),
           relevance |-> calculateRelevance(studentRecords, curriculumData),
           demographic |-> calculateDemographic(demographicData)]
    /\ ultimoSemestreAlcanzado' =
          stashAfterRelevance(ultimoSemestreAlcanzado, studentRecords)
    /\ UNCHANGED <<studentRecords, criticalityData, curriculumData, demographicData,
                   indicator, stashAtCall, audited>>
    /\ UNCHANGED <<normVars, mallaVars, scoreVars, travVars, appVars>>

NextCalc == Calculate \/ CallComponents

SpecCalc == InitCalc /\ [][NextCalc]_vars

(***************************************************************************)
(* Properties of the calculator.                                           *)
(***************************************************************************)
\* the list without the rows whose enMalla flag is not true
FlaggedOnly(records) ==
    JsArr(filterUpTo(records.items,
                     [i \in 1..Len(records.items) |->
                         Get(records.items[i], "enMalla") = JsBool(TRUE)],
                     Len(records.items)))

NoRowFlagged(records) ==
    \A i \in 1..Len(records.items) : Get(records.items[i], "enMalla") # JsBool(TRUE)

ComponentValues(result) ==
    [c \in DOMAIN result.components |-> result.components[c].value]

\* C8: the indicator depends only on the rows whose flag is true: the seven
\* component values, the total percentage and the tier are those of the list
\* from which every row whose flag is false has been removed.
C8_OnlyFlaggedRowsCount ==
    indicator # NotYet =>
        LET alone == calculateExitIndicator(FlaggedOnly(studentRecords), criticalityData,
                                            curriculumData, demographicData)
        IN /\ ComponentValues(indicator) = ComponentValues(alone)
           /\ indicator.totalScore = alone.totalScore
           /\ indicator.level = alone.level

\* C9: when no row has the flag true, the record-based components return
\* their defaults: approval 0, performance 0, permanence 1, repetition 1,
\* criticality 0.5, relevance 0.
C9_EmptyMallaDefaults ==
    (compValues # NotYet /\ NoRowFlagged(studentRecords)) =>
        /\ compValues.approvalRate = [n |-> 0, d |-> 1]
        /\ compValues.performance = [n |-> 0, d |-> 1]
        /\ compValues.permanence = [n |-> 1, d |-> 1]
        /\ compValues.repetition = [n |-> 1, d |-> 1]
        /\ compValues.criticality = [n |-> 1, d |-> 2]
        /\ compValues.relevance = [n |-> 0, d |-> 1]

\* the components were called on a non-empty list of unmatched rows only
C9_Witness ==
    /\ compValues # NotYet
    /\ NoRowFlagged(studentRecords)
    /\ Len(studentRecords.items) = 2
    /\ Get(studentRecords.items[1], "enMalla") = JsBool(FALSE)
    /\ compValues.permanence = [n |-> 1, d |-> 1]

SevenNames == {"approvalRate", "performance", "permanence", "repetition",
               "criticality", "relevance", "demographic"}

\* the weights of the components, in hundredths
FixedWeight(c) ==
    CASE c = "approvalRate" -> 25
      [] c = "performance" -> 20
      [] c = "permanence" -> 20
      [] c = "repetition" -> 10
      [] c = "criticality" -> 10
      [] c = "relevance" -> 10
      [] c = "demographic" -> 5

\* C10: every calculation produces exactly seven components, each with its
\* value, its fixed weight and the contribution value x weight, and the total
\* percentage is 100 times the sum of the contributions, also for an empty list.
C10_SevenComponents ==
    indicator # NotYet =>
        /\ DOMAIN indicator.components = SevenNames
        /\ \A c \in SevenNames :
              /\ indicator.components[c].weight = Rat(FixedWeight(c), 100)
              /\ indicator.components[c].weightedValue
                   = RMul(indicator.components[c].value, Rat(FixedWeight(c), 100))
        /\ indicator.totalScore =
              RMul(RInt(100),
                   sumRat([i \in 1..7 |->
                              indicator.components[ComponentNames[i]].weightedValue], 7))

(***************************************************************************)
(* Specification of the components: the calculator is run on record lists  *)
(* whose grades, statuses, years, terms and curricular semesters vary, on   *)
(* the two students of test-calculations.js, and on varying criticality     *)
(* tables, curriculum documents and demographic data.                       *)
(***************************************************************************)
\* a row of test-calculations.js; grades in tenths
TestRow(code, nota, semestre, anio, oportunidad, semestreCurricular) ==
    JsObj(<<Prop("codigoAsignatura", JsStr(code)), Prop("nota", JsNum(nota)),
            Prop("semestre", JsNum(semestre)), Prop("anio", JsNum(anio)),
            Prop("oportunidad", JsNum(oportunidad)), Prop("enMalla", JsBool(TRUE)),
            Prop("semestreCurricular", JsNum(semestreCurricular))>>)

\* student12345678 of test-calculations.js
Student1 ==
    JsArr(<<TestRow("KIN101", 55, 1, 2022, 1, 1), TestRow("KIN102", 60, 1, 2022, 1, 1),
            TestRow("KIN103", 45, 1, 2022, 1, 1), TestRow("KIN104", 35, 1, 2022, 1, 1),
            TestRow("KIN104", 42, 1, 2023, 2, 1), TestRow("KIN201", 58, 2, 2022, 1, 2),
            TestRow("KIN202", 62, 2, 2022, 1, 2), TestRow("KIN203", 50, 2, 2022, 1, 2),
            TestRow("KIN301", 55, 3, 2023, 1, 3), TestRow("KIN302", 48, 3, 2023, 1, 3)>>)

\* student98765432 of test-calculations.js
Student2 ==
    JsArr(<<TestRow("KIN101", 40, 1, 2021, 1, 1), TestRow("KIN102", 38, 1, 2021, 1, 1),
            TestRow("KIN102", 42, 1, 2022, 2, 1), TestRow("KIN103", 35, 1, 2021, 1, 1),
            TestRow("KIN103", 32, 1, 2022, 2, 1), TestRow("KIN103", 41, 1, 2023, 3, 1),
            TestRow("KIN201", 45, 2, 2022, 1, 2), TestRow("KIN202", 40, 2, 2022, 1, 2)>>)

\* an entry of a criticality table with a categorical label
LabelEntry(code, label) ==
    JsObj(<<Prop("codigo", JsStr(code)), Prop("criticidad", JsStr(label))>>)

\* criticalityData of test-calculations.js
TestCriticality ==
    JsArr(<<JsObj(<<Prop("codigo", JsStr("KIN101")), Prop("criticidad", JsStr("muy alta")),
                    Prop("Porcentaje_4", JsNum(35))>>),
            LabelEntry("KIN102", "muy alta"), LabelEntry("KIN103", "alta"),
            LabelEntry("KIN104", "media"), LabelEntry("KIN201", "muy alta"),
            LabelEntry("KIN202", "muy alta"), LabelEntry("KIN203", "alta"),
            LabelEntry("KIN301", "muy alta"), LabelEntry("KIN302", "alta")>>)

\* curriculumData of test-calculations.js
TestCurriculum ==
    JsObj(<<Prop("semestres_totales", JsNum(10)), Prop("semestres", JsArr(<<>>))>>)

\* an enriched row that is in the curriculum unless flagged is FALSE; estado ""
\* is a row without a status text
StudyRow(code, nota, anio, semestre, semestreCurricular, estado, flagged) ==
    JsObj(<<Prop("codigoAsignatura", JsStr(code)),
            Prop("nombreAsignatura", JsStr(IF code = "K1" THEN "Workshop I" ELSE "Workshop II")),
            Prop("nota", JsNum(nota)), Prop("anio", JsNum(anio)),
            Prop("semestre", JsNum(semestre))>>
          \o (IF estado = "" THEN <<>> ELSE <<Prop("estado", JsStr(estado))>>)
          \o (IF flagged
              THEN <<Prop("enMalla", JsBool(TRUE)),
                     Prop("semestreCurricular", JsNum(semestreCurricular)),
                     Prop("codigoMalla", JsStr(code)),
                     Prop("nombreMalla",
                          JsStr(IF code = "K1" THEN "Workshop I" ELSE "Workshop II"))>>
              ELSE <<Prop("enMalla", JsBool(FALSE)),
                     Prop("semestreCurricular", JsNull),
                     Prop("codigoMalla", JsNull),
                     Prop("nombreMalla", JsNull)>>))

\* rows that differ in grade and status: 3.5, 4.0, 7.0, approved or failed by
\* the status text only, a grade of 70 on a scale of 100, a row off the curriculum
GradeRows ==
    {StudyRow("K1", 35, 2022, 1, 3, "", TRUE),
     StudyRow("K1", 40, 2022, 1, 3, "", TRUE),
     StudyRow("K2", 70, 2022, 1, 3, "", TRUE),
     StudyRow("K2", 35, 2022, 1, 6, "APROBADO", TRUE),
     StudyRow("K2", 35, 2022, 1, 6, "Reprobado", TRUE),
     StudyRow("K1", 700, 2022, 1, 3, "", TRUE),
     StudyRow("K1", 42, 2022, 1, 3, "", FALSE)}

\* rows that differ in year and academic term
YearRows ==
    {StudyRow("K1", 42, y, t, 3, "", TRUE) : y \in {2017, 2018, 2023}, t \in {1, 2}}
    \cup {StudyRow("K1", 42, 1999, 1, 3, "", TRUE)}

ComponentLists ==
    {JsArr(rs) : rs \in SeqsUpTo(GradeRows \cup YearRows, MaxRecords)}
    \cup {Student1, Student2}

\* criticality tables: none, the table of test-calculations.js, a label and an
\* attempt percentage by code, entries by name next to an entry by code, and a
\* workbook of two sheets
ComponentTables ==
    {JsNull,
     TestCriticality,
     JsArr(<<LabelEntry("K1", "Alta"),
             JsObj(<<Prop("codigo", JsStr("K2")), Prop("intento2", JsNum(7))>>)>>),
     JsArr(<<JsObj(<<Prop("nombre", JsStr("Workshop I")),
                     Prop("criticidad", JsStr("Media"))>>),
             LabelEntry("K1", "Baja"),
             JsObj(<<Prop("asignatura", JsStr("Workshop II")),
                     Prop("criticidad", JsStr("Media-Alta"))>>)>>),
     JsObj(<<Prop("hoja1", JsArr(<<LabelEntry("K1", "Muy Baja")>>)),
             Prop("hoja2", JsArr(<<LabelEntry("K2", "Media")>>))>>)}

\* a semester of a curriculum document: its index under the key given, or no
\* index when key is "", and its courses
PlanSemester(key, index) ==
    JsObj((IF key = "" THEN <<>> ELSE <<Prop(key, JsNum(index))>>)
          \o <<Prop("asignaturas", JsArr(<<Course("K1", "Workshop I", 0)>>))>>)

\* curriculum documents: none, the one of test-calculations.js, a total given as
\* a number, as a text and as 0, indexed semesters, semesters without an index,
\* and an empty list of semesters
ComponentPlans ==
    {JsNull,
     TestCurriculum,
     JsObj(<<Prop("semestres_totales", JsNum(3))>>),
     JsObj(<<Prop("semestres_totales", JsStr("8"))>>),
     JsObj(<<Prop("semestres_totales", JsNum(0)),
             Prop("semestres", JsArr(<<PlanSemester("indice_semestre", 5)>>))>>),
     JsObj(<<Prop("semestres", JsArr(<<PlanSemester("indice_semestre", 8)>>))>>),
     JsObj(<<Prop("semestres", JsArr(<<PlanSemester("semestre", 4),
                                       PlanSemester("nivel", 6)>>))>>),
     JsObj(<<Prop("semestres", JsArr(<<PlanSemester("", 0), PlanSemester("", 0)>>))>>),
     JsObj(<<Prop("semestres", JsArr(<<>>))>>)}

Demographic(genero, ciudad, tipoColegio) ==
    JsObj(<<Prop("genero", JsStr(genero)), Prop("ciudad", JsStr(ciudad)),
            Prop("tipoColegio", JsStr(tipoColegio))>>)

\* demographic data: none, an empty form, and every form of the fields below
ComponentDemographics ==
    {JsNull, JsObj(<<>>)}
    \cup {Demographic(g, c, t) : g \in {"Mujer", "Hombre", "Otro"},
                                 c \in {"Santiago", "Gran Santiago", "Viña", ""},
                                 t \in {"Municipal", "Particular", "Público"}}

\* the record lists the tables, the plans and the demographic data are tried on
FewLists ==
    {JsArr(rs) : rs \in SeqsUpTo({StudyRow("K1", 35, 2022, 1, 3, "", TRUE),
                                  StudyRow("K2", 70, 2022, 1, 6, "", TRUE)}, MaxRecords)}
    \cup {Student1}

InitComponents ==
    /\ \/ /\ studentRecords \in ComponentLists
          /\ criticalityData = JsNull
          /\ curriculumData = JsNull
          /\ demographicData = JsNull
       \/ /\ studentRecords \in FewLists
          /\ criticalityData \in ComponentTables
          /\ curriculumData \in {JsNull, JsObj(<<Prop("semestres_totales", JsNum(3))>>)}
          /\ demographicData = JsNull
       \/ /\ studentRecords \in FewLists
          /\ criticalityData = JsNull
          /\ curriculumData \in ComponentPlans
          /\ demographicData = JsNull
       \/ /\ studentRecords \in {Student1, JsArr(<<StudyRow("K2", 70, 2022, 1, 6, "", TRUE)>>)}
          /\ criticalityData = TestCriticality
          /\ curriculumData = TestCurriculum
          /\ demographicData \in ComponentDemographics
    /\ indicator = NotYet
    /\ compValues = NotYet
    /\ ultimoSemestreAlcanzado = JsUndef
    /\ stashAtCall = NotYet
    /\ audited = NotYet
    /\ NormIdle
    /\ MallaIdle
    /\ ScoreIdle
    /\ TravIdle
    /\ AppIdle

SpecComponents == InitComponents /\ [][NextCalc]_vars

(***************************************************************************)
(* Properties of the components.                                           *)
(***************************************************************************)
\* C11: the total percentage of every calculation lies between 0 and 100,
\* whatever the grades, years and terms of the rows, the criticality table,
\* the curriculum document and the demographic data.
C11_TotalWithinBounds ==
    indicator # NotYet =>
        /\ RLeq(RInt(0), indicator.totalScore)
        /\ RLeq(indicator.totalScore, RInt(100))

\* the tier the thresholds 80 and 60 give a total percentage
TierOf(total) ==
    IF RLeq(RInt(80), total) THEN "Alto"
    ELSE IF RLeq(RInt(60), total) THEN "Medio"
    ELSE "Bajo"

\* C12: the tier is a function of the total percentage only: High (Alto) from
\* 80 on, Medium (Medio) from 60 up to 80, Low (Bajo) below 60; exactly 80 is
\* High and exactly 60 is Medium.
C12_TierFromTotal ==
    indicator # NotYet =>
        /\ indicator.level = TierOf(indicator.totalScore)
        /\ indicator.levelClass =
              (CASE indicator.level = "Alto" -> "high"
                 [] indicator.level = "Medio" -> "medium"
                 [] OTHER -> "low")

\* a calculation whose total is exactly 80 and whose tier is High
C12_Witness ==
    /\ indicator # NotYet
    /\ indicator.totalScore = [n |-> 80, d |-> 1]
    /\ indicator.level = "Alto"

\* a calculation whose total is exactly 60 and whose tier is Medium
C12_ExactlySixty ==
    /\ indicator # NotYet
    /\ indicator.totalScore = [n |-> 60, d |-> 1]
    /\ indicator.level = "Medio"

\* the rows whose flag is true, as a sequence
MallaRows(records) == FlaggedOnly(records).items

\* the years from 2000 to 2100 of the rows that are in the curriculum
PlausibleYears(records) ==
    {Get(MallaRows(records)[i], "anio").n : i \in 1..Len(MallaRows(records))}
        \cap (2000..2100)

\* 1 - max(0, yearsSpan - 5)/5 clamped to [0,1], for a span in whole years
PermanenceOfSpan(yearsSpan) ==
    clamp01(RSub(RInt(1), Rat(IF yearsSpan > 5 THEN yearsSpan - 5 ELSE 0, 5)))

\* C13: permanence is 1 - max(0, yearsSpan - 5)/5 clamped to [0,1], where
\* yearsSpan = max(year) - min(year) + 1 over the rows of the curriculum whose
\* year is in 2000..2100, whatever the academic term of those rows: a span of
\* 2 or 3 years gives 1.0 and a span of 7 years gives 0.6.
C13_PermanenceFromYearSpan ==
    (compValues # NotYet /\ PlausibleYears(studentRecords) # {}) =>
        compValues.permanence =
            PermanenceOfSpan(maxOf(PlausibleYears(studentRecords))
                             - minOf(PlausibleYears(studentRecords)) + 1)

\* the course a row belongs to: its curriculum code, else its own code
CourseOf(row) == JsOr(Get(row, "codigoMalla"), Get(row, "codigoAsignatura"))

RECURSIVE SumOver(_, _)
SumOver(S, f) ==
    IF S = {} THEN 0
    ELSE LET x == CHOOSE y \in S : TRUE IN f[x] + SumOver(S \ {x}, f)

\* R: over the distinct courses, the rows of the course less one
RepeatedRows(rows) ==
    SumOver({CourseOf(rows[i]) : i \in 1..Len(rows)},
            [c \in {CourseOf(rows[i]) : i \in 1..Len(rows)} |->
                positivePart(Cardinality({i \in 1..Len(rows) : CourseOf(rows[i]) = c}) - 1)])

\* 1 - R/T clamped to [0,1]
RepetitionOf(rows) == clamp01(RSub(RInt(1), Rat(RepeatedRows(rows), Len(rows))))

\* C14: repetition is 1 - R/T clamped to [0,1], T the number of rows of the
\* curriculum and R the sum over the distinct courses of max(0, rows of the
\* course - 1): 10 rows with one course taken twice give 0.90 and 8 rows with
\* 3 repeated rows give 0.625.
C14_RepetitionFromRows ==
    (compValues # NotYet /\ Len(MallaRows(studentRecords)) > 0) =>
        compValues.repetition = RepetitionOf(MallaRows(studentRecords))

\* the components of the student with 8 rows, 3 of them repeated
C14_Witness ==
    /\ compValues # NotYet
    /\ studentRecords = Student2
    /\ compValues.repetition = [n |-> 5, d |-> 8]

\* the components of the student with 10 rows and one course taken twice
C14_TenRows ==
    /\ compValues # NotYet
    /\ studentRecords = Student1
    /\ compValues.repetition = [n |-> 9, d |-> 10]

RECURSIVE FlattenRange(_, _, _)
FlattenRange(lists, a, b) ==
    IF a > b THEN <<>>
    ELSE IF a = b THEN lists[a]
    ELSE FlattenRange(lists, a, (a + b) \div 2)
           \o FlattenRange(lists, (a + b) \div 2 + 1, b)

Flatten(lists, n) == FlattenRange(lists, 1, n)

\* the entries of a criticality table: those of the array, or those of every
\* sheet of the workbook, in order
EntriesOfTable(table) ==
    IF table.t = "arr" THEN table.items
    ELSE IF table.t = "obj"
    THEN Flatten([i \in 1..Len(table.props) |-> table.props[i].v.items], Len(table.props))
    ELSE <<>>

\* the name a row of the curriculum carries, normalized; "" when it has none
RowName(row) == normalizeText(JsOr(Get(row, "nombreMalla"), Get(row, "nombreAsignatura")))

\* the name an entry of the table carries, normalized; "" when it has none
EntryName(entry) == normalizeText(JsOr(Get(entry, "nombre"), Get(entry, "asignatura")))

\* the score the table gives a row: the last entry with the code of the row,
\* else the last entry with its normalized name, else 1
ScoreInTable(row, entries) ==
    LET byCode == {i \in 1..Len(entries) : Get(entries[i], "codigo") = CourseOf(row)}
        byName == {i \in 1..Len(entries) :
                      EntryName(entries[i]) # "" /\ EntryName(entries[i]) = RowName(row)}
    IN IF byCode # {} THEN getCriticalityScore(entries[maxOf(byCode)])
       ELSE IF byName # {} THEN getCriticalityScore(entries[maxOf(byName)])
       ELSE 1

\* the first row of every distinct course
FirstRows(rows) ==
    {i \in 1..Len(rows) : \A j \in 1..(i - 1) : CourseOf(rows[j]) # CourseOf(rows[i])}

\* sum of the scores of the distinct courses / (5 x distinct courses), clamped
CriticalityOf(rows, entries) ==
    clamp01(Rat(SumOver(FirstRows(rows),
                        [i \in FirstRows(rows) |-> ScoreInTable(rows[i], entries)]),
                5 * Cardinality(FirstRows(rows))))

\* C15: criticality is the sum over the distinct courses of the curriculum of
\* the score of each (looked up by code first, then by normalized name, 1 when
\* the table has neither) divided by 5 times the number of distinct courses,
\* clamped to [0,1] and not inverted; 9 courses whose scores sum to 43 give 43/45.
C15_CriticalityFromScores ==
    (compValues # NotYet /\ Len(MallaRows(studentRecords)) > 0) =>
        compValues.criticality =
            CriticalityOf(MallaRows(studentRecords), EntriesOfTable(criticalityData))

\* the 9 courses of the first student against the table whose scores sum to 43
C15_Witness ==
    /\ compValues # NotYet
    /\ studentRecords = Student1
    /\ criticalityData = TestCriticality
    /\ compValues.criticality = [n |-> 43, d |-> 45]

\* a course whose code and whose name are both in the table, with different
\* scores: the entry by code (Baja, 2) counts, not the entry by name (Media, 3)
C15_CodeBeforeName ==
    /\ compValues # NotYet
    /\ studentRecords = JsArr(<<StudyRow("K1", 35, 2022, 1, 3, "", TRUE)>>)
    /\ criticalityData \in ComponentTables
    /\ criticalityData.t = "arr"
    /\ Len(criticalityData.items) = 3
    /\ compValues.criticality = [n |-> 2, d |-> 5]

(***************************************************************************)
(* Specification of the score of a criticality entry: an entry is drawn     *)
(* and getCriticalityScore is applied to it.                                *)
(***************************************************************************)
\* a property, left out when the value is undefined
OptionalProp(k, v) == IF v = JsUndef THEN <<>> ELSE <<Prop(k, v)>>

\* an entry with failure percentages of the attempts 4, 3 and 2 and a label
ScoreEntry(intento4, intento3, intento2, label) ==
    JsObj(<<Prop("codigo", JsStr("K1"))>>
          \o OptionalProp("intento4", intento4) \o OptionalProp("intento3", intento3)
          \o OptionalProp("intento2", intento2) \o OptionalProp("criticidad", label))

ScoreLabels ==
    {JsUndef} \cup {JsStr(l) : l \in {"Muy Alta", "Alta", "Media-Alta", "Media", "Baja",
                                       "Muy Baja", "Otra"}}

\* entries under the keys of the application, and entries of a spreadsheet
\* whose columns are Porcentaje_4, Porcentaje 3 and Categoría
ScoreEntries ==
    {ScoreEntry(i4, i3, i2, l) :
        i4 \in {JsUndef, JsStr(""), JsNum(4), JsNum(5), JsNum(30)},
        i3 \in {JsUndef, JsNum(10), JsNum(19)},
        i2 \in {JsUndef, JsNull, JsNum(0), JsNum(9), JsNum(20), JsNum(29)},
        l \in ScoreLabels}
    \cup {JsObj(<<Prop("codigo", JsStr("K1")), Prop("Porcentaje_4", JsNum(35)),
                  Prop("criticidad", JsStr("media"))>>),
          JsObj(<<Prop("codigo", JsStr("K1")), Prop("Porcentaje 3", JsStr("12")),
                  Prop("Categoría", JsStr("Baja"))>>),
          JsObj(<<Prop("codigo", JsStr("K1")), Prop("Categoría", JsStr("ALTA"))>>)}

InitScore ==
    /\ critItem \in ScoreEntries
    /\ critScore = NotYet
    /\ NormIdle
    /\ MallaIdle
    /\ CalcIdle
    /\ TravIdle
    /\ AppIdle

\* getCriticalityScore(item), as ingestList calls it for every entry
Score ==
    /\ critScore = NotYet
    /\ critScore' = JsNum(getCriticalityScore(critItem))
    /\ UNCHANGED critItem
    /\ UNCHANGED <<normVars, mallaVars, calcVars, travVars, appVars>>

NextScore == Score

SpecScore == InitScore /\ [][NextScore]_vars

\* a value that is there: not undefined, not null, not the empty text
Present(v) == v # JsUndef /\ v # JsNull /\ v # JsStr("")

\* the failure percentage of an attempt level, under any of its three keys
AttemptPercent(entry, level) ==
    JsNullish(JsNullish(Get(entry, "intento" \o level), Get(entry, "Porcentaje_" \o level)),
              Get(entry, "Porcentaje " \o level))

\* [0,5) -> 1, [5,10) -> 2, [10,20) -> 3, [20,30) -> 4, from 30 on -> 5
ScoreOfRange(percent) ==
    IF percent < 5 THEN 1
    ELSE IF percent < 10 THEN 2
    ELSE IF percent < 20 THEN 3
    ELSE IF percent < 30 THEN 4
    ELSE 5

\* very high and high 5, medium-high 4, medium 3, low 2, very low 1, else 1
ScoreOfLabel(label) ==
    IF label.t # "str" THEN 1
    ELSE CASE toLowerCase(label.s) \in {"muy alta", "alta"} -> 5
           [] toLowerCase(label.s) = "media-alta" -> 4
           [] toLowerCase(label.s) = "media" -> 3
           [] toLowerCase(label.s) = "baja" -> 2
           [] OTHER -> 1

\* the label of an entry, under the key of the application or of a spreadsheet
LabelOf(entry) == JsNullish(Get(entry, "criticidad"), Get(entry, "Categoría"))

\* the score by priority: attempt 4, then 3, then 2, then the label, then 1
ScoreByPriority(entry) ==
    IF Present(AttemptPercent(entry, "4"))
    THEN ScoreOfRange(Number(AttemptPercent(entry, "4")).n)
    ELSE IF Present(AttemptPercent(entry, "3"))
    THEN ScoreOfRange(Number(AttemptPercent(entry, "3")).n)
    ELSE IF Present(AttemptPercent(entry, "2"))
    THEN ScoreOfRange(Number(AttemptPercent(entry, "2")).n)
    ELSE ScoreOfLabel(LabelOf(entry))

\* C16: the score of a criticality entry is an integer from 1 to 5 resolved by
\* priority: when a failure percentage of an attempt is present, that of the
\* highest attempt present (4, then 3, then 2) mapped by [0,5) -> 1, [5,10) -> 2,
\* [10,20) -> 3, [20,30) -> 4, from 30 on -> 5 (exactly 5.0 gives 2); otherwise
\* the label (very high and high 5, medium-high 4, medium 3, low 2, very low 1);
\* otherwise 1.
C16_ScoreByPriority ==
    critScore # NotYet =>
        /\ critScore.n \in 1..5
        /\ critScore.n = ScoreByPriority(critItem)

\* an entry whose attempt 4 failed exactly 5 percent and which also carries a
\* percentage of attempt 2 and a label of 5: its score is 2
C16_Witness ==
    /\ critScore = JsNum(2)
    /\ Get(critItem, "intento4") = JsNum(5)
    /\ Get(critItem, "intento2") = JsNum(29)
    /\ Get(critItem, "criticidad") = JsStr("Muy Alta")

\* a grade of 4.0 or more (grades are in tenths), or a status text containing
\* "aprob" in either case
ApprovedRow(row) ==
    \/ Get(row, "nota").n >= 40
    \/ (Get(row, "estado").t = "str" /\ includes(toLowerCase(Get(row, "estado").s), "aprob"))

ApprovedRows(rows) == {i \in 1..Len(rows) : ApprovedRow(rows[i])}

\* C17: the approval rate is the number of rows of the curriculum with a grade
\* of 4.0 or more or a status text containing "aprob", divided by the number of
\* rows of the curriculum; every attempt counts as a row (9 approved of 10 rows
\* give 0.9, 5 of 8 give 0.625) and the value is in [0,1].
C17_ApprovalRateFromRows ==
    (compValues # NotYet /\ Len(MallaRows(studentRecords)) > 0) =>
        /\ compValues.approvalRate =
              Rat(Cardinality(ApprovedRows(MallaRows(studentRecords))),
                  Len(MallaRows(studentRecords)))
        /\ RLeq(RInt(0), compValues.approvalRate)
        /\ RLeq(compValues.approvalRate, RInt(1))

\* the student with 10 rows, 9 of them approved
C17_Witness ==
    /\ compValues # NotYet
    /\ studentRecords = Student1
    /\ compValues.approvalRate = [n |-> 9, d |-> 10]

\* the student with 8 rows, 5 of them approved
C17_FiveOfEight ==
    /\ compValues # NotYet
    /\ studentRecords = Student2
    /\ compValues.approvalRate = [n |-> 5, d |-> 8]

\* a row with a grade of 3.5 that is approved by its status text
C17_ApprovedByStatus ==
    /\ compValues # NotYet
    /\ Len(studentRecords.items) = 1
    /\ Get(studentRecords.items[1], "nota") = JsNum(35)
    /\ Get(studentRecords.items[1], "estado") = JsStr("APROBADO")
    /\ compValues.approvalRate = [n |-> 1, d |-> 1]

\* S: the largest curricular semester among the rows of the curriculum, 0 when
\* none is positive
LargestSemester(rows) ==
    maxOr({Get(rows[i], "semestreCurricular").n :
              i \in {j \in 1..Len(rows) :
                        /\ Get(rows[j], "semestreCurricular").t = "num"
                        /\ Get(rows[j], "semestreCurricular").n > 0}},
          0)

\* the semester indexes a curriculum document states for its semesters
SemesterIndexes(plan) ==
    IF Get(plan, "semestres").t # "arr" THEN {}
    ELSE {n \in 1..12 :
             \E i \in 1..Len(Get(plan, "semestres").items) :
                \E k \in {"indice_semestre", "semestre", "nivel"} :
                   Get(Get(plan, "semestres").items[i], k) = JsNum(n)}

\* P: the explicit total when the document has one, else the largest semester
\* index found in the document, else 10
PlanSemesters(plan) ==
    IF IsPositiveNumber(Number(Get(plan, "semestres_totales")))
    THEN Number(Get(plan, "semestres_totales")).n
    ELSE maxOr(SemesterIndexes(plan), 10)

\* C18: relevance is min(1, S / P), S the largest curricular semester among the
\* rows of the curriculum (0 if none is positive) and P the maximum semester of
\* the plan: the explicit total-semesters field when present, else the largest
\* semester index found in the curriculum document, else 10; semester 3 of a
\* plan of 10 semesters gives 0.3.
C18_RelevanceFromPlan ==
    compValues # NotYet =>
        compValues.relevance =
            RMin(RInt(1), Rat(LargestSemester(MallaRows(studentRecords)),
                              PlanSemesters(curriculumData)))

\* a field of the demographic data as lower-case text, "" when it is missing
DemographicText(data, field) ==
    IF Get(data, field).t = "str" THEN toLowerCase(Get(data, field).s) ELSE ""

\* 1 for female or other, else 0
GenderScore(data) ==
    IF DemographicText(data, "genero") \in {"mujer", "female", "otro", "other"} THEN 1 ELSE 0

\* 1 whenever the city does not contain "santiago", else 0
CityScore(data) ==
    IF includes(DemographicText(data, "ciudad"), "santiago") THEN 0 ELSE 1

\* 1 for a public, municipal or subsidized school, else 0
SchoolTypeScore(data) ==
    IF DemographicText(data, "tipoColegio")
          \in {"publico", "público", "public", "municipal", "subvencionado"}
    THEN 1 ELSE 0

\* C19: the demographic index is (genderScore + cityScore + schoolTypeScore)/3,
\* genderScore 1 for female or other, cityScore 1 whenever the city does not
\* contain "santiago" in either case, schoolTypeScore 1 for a public, municipal
\* or subsidized school; without demographic data the value is 0.5.
C19_DemographicFromScores ==
    compValues # NotYet =>
        compValues.demographic =
            (IF demographicData = JsNull THEN Rat(1, 2)
             ELSE Rat(GenderScore(demographicData) + CityScore(demographicData)
                      + SchoolTypeScore(demographicData), 3))

(***************************************************************************)
(* Specification of a session: the calculator is invoked for one student    *)
(* after another, and the property calculateRelevance writes on             *)
(* calculateExitIndicator lives on from one invocation to the next.         *)
(***************************************************************************)
SessionRows ==
    {StudyRow("K1", 35, 2022, 1, 3, "", TRUE),
     StudyRow("K2", 42, 2022, 1, 6, "", TRUE),
     StudyRow("K1", 42, 2022, 1, 3, "", FALSE)}

SessionLists == {JsArr(rs) : rs \in SeqsUpTo(SessionRows, MaxRecords)}

SessionPlans == {JsNull, TestCurriculum}

InitSession ==
    /\ studentRecords \in SessionLists
    /\ criticalityData = JsNull
    /\ curriculumData \in SessionPlans
    /\ demographicData = JsNull
    /\ indicator = NotYet
    /\ compValues = NotYet
    /\ ultimoSemestreAlcanzado = JsUndef
    /\ stashAtCall = NotYet
    /\ audited = NotYet
    /\ NormIdle
    /\ MallaIdle
    /\ ScoreIdle
    /\ TravIdle
    /\ AppIdle

\* the application turns to another student: new inputs, nothing calculated
\* for them yet; the function object keeps what was written on it
NextStudent ==
    /\ indicator # NotYet \/ compValues # NotYet
    /\ studentRecords' \in SessionLists
    /\ curriculumData' \in SessionPlans
    /\ indicator' = NotYet
    /\ compValues' = NotYet
    /\ stashAtCall' = NotYet
    /\ audited' = NotYet
    /\ UNCHANGED <<criticalityData, demographicData, ultimoSemestreAlcanzado>>
    /\ UNCHANGED <<normVars, mallaVars, scoreVars, travVars, appVars>>

NextSession == Calculate \/ CallComponents \/ NextStudent

SpecSession == InitSession /\ [][NextSession]_vars

\* C20: the indicator calculation is a function of its inputs across any
\* sequence of invocations: the result for inputs X (components, total, tier
\* and statistics, the last curricular semester reached among them) is the one
\* a first invocation on X gives, whatever was calculated before, and the last
\* semester in it is that of X's own rows, never the value an earlier
\* invocation stashed on the function object.
C20_ResultFromInputsOnly ==
    indicator # NotYet =>
        /\ indicator = calculateExitIndicator(studentRecords, criticalityData,
                                              curriculumData, demographicData)
        /\ indicator.stats.currentSemester = LargestSemester(MallaRows(studentRecords))

\* an invocation on rows that are all off the curriculum, made when an earlier
\* invocation had left semester 6 on the function object: the result says 0
C20_Witness ==
    /\ indicator # NotYet
    /\ stashAtCall = JsNum(6)
    /\ Len(studentRecords.items) > 0
    /\ Len(MallaRows(studentRecords)) = 0
    /\ indicator.stats.currentSemester = 0
    /\ ultimoSemestreAlcanzado = JsNum(0)

(***************************************************************************)
(* The traversal of buildMallaIndex, one traverse call at a time           *)
(* (mallaIndex.js lines 150-199).  Objects that are referred to from more  *)
(* than one place, or from inside themselves, live in heap and are named   *)
(* by Ref(i); heap[1] is the document.  stack holds the calls that are     *)
(* still to be made, the next one first.                                   *)
(***************************************************************************)
Ref(id) == [t |-> "ref", id |-> id]

\* the object a value stands for
deref(v) == IF v.t = "ref" THEN heap[v.id] ELSE v

\* val && typeof val === 'object'
isObjectValue(v) == v.t = "ref" \/ IsObjectType(v)

\* one call traverse(data, depth, currentSem)
Frame(v, depth, sem) == [v |-> v, depth |-> depth, sem |-> sem]

\* line 151, with the test of the depth one level late
skipsNode_OneDeeper(data, depth) == ~Truthy(data) \/ depth > DepthCap + 1

\* line 151: if (!data || depth > 15) return
skipsNode(data, depth) == ~Truthy(data) \/ depth > DepthCap

\* line 154: the calls data.forEach makes
itemFrames(items, depth, currentSem) ==
    [i \in 1..Len(items) |-> Frame(items[i], depth + 1, currentSem)]

\* lines 179-195: the calls made for the properties that hold objects
RECURSIVE propFrames(_, _, _, _)
propFrames(props, i, depth, detectedSem) ==
    IF i > Len(props) THEN <<>>
    ELSE (IF isObjectValue(props[i].v)
          THEN <<Frame(props[i].v, depth + 1, nextSemOf(props[i].k, detectedSem))>>
          ELSE <<>>)
         \o propFrames(props, i + 1, depth, detectedSem)

\* lines 155-196 on an object whose own keys announce detectedSem
visitObject(data, depth, detectedSem) ==
    /\ travIndex' = IF isCourse(data) THEN addCourse(travIndex, data, detectedSem)
                    ELSE travIndex
    /\ stack' = propFrames(data.props, 1, depth, detectedSem) \o Tail(stack)
    /\ deepest' = IF depth > deepest THEN depth ELSE deepest

\* one call of traverse, lines 150-197
visit(data, depth, currentSem) ==
    IF skipsNode(data, depth)
    THEN stack' = Tail(stack) /\ UNCHANGED <<travIndex, deepest>>
    ELSE IF data.t = "arr"
    THEN /\ stack' = itemFrames(data.items, depth, currentSem) \o Tail(stack)
         /\ deepest' = (IF depth > deepest THEN depth ELSE deepest)
         /\ UNCHANGED travIndex
    ELSE IF data.t = "obj"
    THEN visitObject(data, depth, detectSem(data, 1, currentSem))
    ELSE stack' = Tail(stack) /\ UNCHANGED <<travIndex, deepest>>

TraverseStep ==
    /\ stack # <<>>
    /\ visit(deref(Head(stack).v), Head(stack).depth, Head(stack).sem)
    /\ UNCHANGED heap
    /\ UNCHANGED <<normVars, mallaVars, calcVars, scoreVars, appVars>>

\* a document holding d, and c at the end of a chain of objects that puts it k
\* levels under the document
Chain(d, c, k) ==
    [i \in 1..(k + 1) |->
        IF i = 1 THEN JsObj(<<Prop("a", d), Prop("b", Ref(2))>>)
        ELSE IF i <= k THEN JsObj(<<Prop("a", Ref(i + 1))>>)
        ELSE c]

TravCourses == {Course("K1", "Workshop I", 0), Course("k-2", "Workshop II", 2)}

\* documents without and with cycles, and chains that reach and pass the depth cap
Heaps ==
    {<<JsObj(<<Prop("semestre 1", JsArr(<<c, d>>))>>)>> : c, d \in TravCourses}
    \cup {<<SetProp(c, "plan", Ref(1))>> : c \in TravCourses}
    \cup {<<JsObj(<<Prop("cursos", JsArr(<<SetProp(c, "plan", Ref(1))>>))>>)>> :
            c \in TravCourses}
    \cup {<<SetProp(c, "next", Ref(2)), SetProp(d, "next", Ref(1))>> :
            c, d \in TravCourses}
    \cup {Chain(d, c, k) : c, d \in TravCourses, k \in {DepthCap, DepthCap + 1}}

\* traverse(mallaJson) is about to be called, line 199
InitTraverse ==
    /\ heap \in Heaps
    /\ stack = <<Frame(Ref(1), 0, 0)>>
    /\ travIndex = EmptyIndex
    /\ deepest = -1
    /\ NormIdle
    /\ MallaIdle
    /\ CalcIdle
    /\ ScoreIdle
    /\ AppIdle

NextTraverse == TraverseStep

\* buildMallaIndex is synchronous code, so a pending call is made: weak fairness
\* of TraverseStep, which is enabled exactly when a call is pending and whose
\* every step changes stack
TraverseFair == []<>(stack = <<>>) \/ []<><<stack' # stack>>_vars

SpecTraverse == InitTraverse /\ [][NextTraverse]_vars /\ TraverseFair

\* the values traverse is called on at depth k
RECURSIVE nodesAt(_)
nodesAt(k) ==
    IF k = 0 THEN {Ref(1)}
    ELSE UNION {LET data == deref(n) IN
                  IF data.t = "arr" THEN {data.items[i] : i \in 1..Len(data.items)}
                  ELSE IF data.t = "obj"
                  THEN {data.props[i].v : i \in {j \in 1..Len(data.props) :
                                                  isObjectValue(data.props[j].v)}}
                  ELSE {} : n \in nodesAt(k - 1)}

\* the normalized codes of the course nodes that lie at most cap levels under the
\* document
CodesWithin(cap) ==
    {normalizeCourseName(Get(deref(n), "codigo"), TRUE) :
        n \in {m \in UNION {nodesAt(k) : k \in 0..cap} : HasKey(deref(m), "codigo")}}

\* no reference in the document
RECURSIVE IsTree(_)
IsTree(v) ==
    CASE v.t = "ref" -> FALSE
      [] v.t = "arr" -> \A i \in 1..Len(v.items) : IsTree(v.items[i])
      [] v.t = "obj" -> \A i \in 1..Len(v.props) : IsTree(v.props[i].v)
      [] OTHER -> TRUE

TraverseReturned == stack = <<>> /\ travIndex # NotYet

\* the index holds exactly the courses found at most DepthCap levels down, and on
\* a document without references it is the index buildMallaIndex computes
IndexWithinCap ==
    /\ {travIndex.byCode[i].k : i \in 1..Len(travIndex.byCode)} = CodesWithin(DepthCap)
    /\ IsTree(heap[1]) => travIndex = buildMallaIndex(heap[1])

\* C21: buildIndex terminates on every document, cyclic ones included: every
\* run of the traversal reaches the point where no call is pending, no node is
\* ever examined more than DepthCap levels under the document, and the index
\* returned holds the courses met down to that depth.
C21_TraversalTerminates ==
    /\ <>TraverseReturned
    /\ [](deepest <= DepthCap)
    /\ [](TraverseReturned => IndexWithinCap)

\* a cyclic document was traversed down to the cap and its course is indexed
C21_Witness ==
    /\ TraverseReturned
    /\ ~IsTree(heap[1])
    /\ deepest = DepthCap
    /\ MapHas(travIndex.byCode, "K1")

(***************************************************************************)
(* C22: the canonical form of names.                                       *)
(***************************************************************************)
\* only A-Z, 0-9 and single spaces, none of them first or last
Canonical(s) ==
    /\ \A i \in 1..Len(s) :
          \/ includes(UpperAZ, CharAt(s, i))
          \/ IsDigit(CharAt(s, i))
          \/ CharAt(s, i) = " "
    /\ s # "" => (CharAt(s, 1) # " " /\ CharAt(s, Len(s)) # " ")
    /\ ~includes(s, "  ")

\* C22: normalize(text, false) is in canonical form for every input (only A-Z,
\* 0-9 and single spaces, no space first or last, no run of spaces), and an
\* empty or null input yields the empty text.
C22_NameCanonical ==
    (Len(nOut) >= 1 /\ ~nFlag) =>
        /\ Canonical(nOut[1])
        /\ nText \in {JsNull, JsUndef, JsStr("")} => nOut[1] = ""

(***************************************************************************)
(* Specification of the indexer on documents that state the semester of a  *)
(* list of courses on the node that holds the list.                        *)
(***************************************************************************)
ContextCourses == {Course("K1", "Workshop I", 0), Course("k-2", "Workshop II", 2)}

ContextLists == SeqsUpTo(ContextCourses, MaxCourses) \ {<<>>}

\* the list beside an explicit field, under a key that carries the number, and
\* under a numeric key
ContextDocs ==
    {JsObj(<<Prop("indice_semestre", JsNum(3)), Prop("asignaturas", JsArr(cs))>>) :
        cs \in ContextLists}
    \cup {JsObj(<<Prop("semestre", JsNum(3)), Prop("cursos", JsArr(cs))>>) :
            cs \in ContextLists}
    \cup {JsObj(<<Prop("semestre 3", JsArr(cs))>>) : cs \in ContextLists}
    \cup {JsObj(<<Prop("3", JsArr(cs))>>) : cs \in ContextLists}

InitContext ==
    /\ mallaJson \in ContextDocs
    /\ mallaIndex = NotYet
    /\ reIndex = NotYet
    /\ matched = NotYet
    /\ gradesData = NotYet
    /\ enriched = NotYet
    /\ NormIdle
    /\ CalcIdle
    /\ ScoreIdle
    /\ TravIdle
    /\ AppIdle

SpecContext == InitContext /\ [][NextMalla]_vars

\* the list of courses of a document of ContextDocs
ContextList(doc) == doc.props[Len(doc.props)].v.items

\* the semester the course states itself, else that of its context, which is 3
\* in every document of ContextDocs
SemesterDue(course) ==
    IF HasKey(course, "semestre") THEN Get(course, "semestre").n ELSE 3

\* C23: a course node without a semester field of its own gets the semester of
\* its context (the value of an explicit semester field of the containing node,
\* else the number in the containing key), and its own field overrides it.
C23_SemesterFromContext ==
    mallaIndex # NotYet =>
        \A i \in 1..Len(ContextList(mallaJson)) :
            LET course == ContextList(mallaJson)[i] IN
              (\A j \in (i + 1)..Len(ContextList(mallaJson)) :
                    Get(ContextList(mallaJson)[j], "codigo") # Get(course, "codigo"))
              => /\ MapHas(mallaIndex.byCode, normCodeOf(course))
                 /\ Get(MapGet(mallaIndex.byCode, normCodeOf(course)), "semestre")
                      = JsNum(SemesterDue(course))

(***************************************************************************)
(* C24: duplicates in the curriculum document.                             *)
(***************************************************************************)
\* the course nodes of a document of Docs, in the order traverse meets them
DocList(doc) ==
    IF doc.t = "arr" THEN doc.items
    ELSE IF doc.t = "obj" THEN doc.props[1].v.items
    ELSE <<>>

\* no later node of the list has the key
LastWith(list, i, KeyOf(_)) ==
    \A j \in (i + 1)..Len(list) : KeyOf(list[j]) # KeyOf(list[i])

\* the lookup holds, under the key of the i-th node, the entry made from that node
MapsToNode(lookup, list, i, KeyOf(_)) ==
    KeyOf(list[i]) # "" =>
        /\ MapHas(lookup, KeyOf(list[i]))
        /\ Get(MapGet(lookup, KeyOf(list[i])), "original") = list[i]

NoSharedKey(allCourses) ==
    \A i, j \in 1..Len(allCourses) :
        i < j =>
            /\ ~(normCodeOf(allCourses[i]) # ""
                   /\ normCodeOf(allCourses[i]) = normCodeOf(allCourses[j]))
            /\ ~(normNameOf(allCourses[i]) # ""
                   /\ normNameOf(allCourses[i]) = normNameOf(allCourses[j]))

\* C24: after buildIndex no two entries of allCourses share a non-empty
\* normalized code or a non-empty normalized name, and byCode and byName map
\* every key to the entry of the node that was met last with that key.
C24_DuplicatesLastWins ==
    mallaIndex # NotYet =>
        /\ NoSharedKey(mallaIndex.allCourses)
        /\ \A i \in 1..Len(DocList(mallaJson)) :
              /\ LastWith(DocList(mallaJson), i, normCodeOf)
                    => MapsToNode(mallaIndex.byCode, DocList(mallaJson), i, normCodeOf)
              /\ LastWith(DocList(mallaJson), i, normNameOf)
                    => MapsToNode(mallaIndex.byName, DocList(mallaJson), i, normNameOf)

\* two nodes with one code and two names were indexed: allCourses keeps the
\* first, byCode holds the second
C24_Witness ==
    /\ mallaIndex # NotYet
    /\ Len(DocList(mallaJson)) = 2
    /\ normCodeOf(DocList(mallaJson)[1]) = normCodeOf(DocList(mallaJson)[2])
    /\ normNameOf(DocList(mallaJson)[1]) # normNameOf(DocList(mallaJson)[2])
    /\ Len(mallaIndex.allCourses) = 1
    /\ Get(mallaIndex.allCourses[1], "original") = DocList(mallaJson)[1]
    /\ Get(MapGet(mallaIndex.byCode, normCodeOf(DocList(mallaJson)[2])), "original")
          = DocList(mallaJson)[2]

(***************************************************************************)
(* Specification of the matcher on names that carry numbers: a curriculum  *)
(* of numbered courses is indexed and a record without a code is matched.  *)
(***************************************************************************)
NumberedNames == <<"Lab 1", "Lab 2", "Lab 12", "Lab 1 B2">>

\* the i-th numbered course; the codes are distinct
NumberedCourse(i) == Course("N" \o natToString(i), NumberedNames[i], 0)

NumberedDocs ==
    {JsArr([i \in 1..Len(is) |-> NumberedCourse(is[i])]) :
        is \in SeqsUpTo(1..Len(NumberedNames), MaxCourses)}

NumberedRecords ==
    {Record("", n) : n \in {"Lab 1", "Lab 3", "Lab 1 B2", "Lab 1 B25", "Laboratory", "1 Lab"}}

InitFuzzy ==
    /\ mallaJson \in NumberedDocs
    /\ mallaIndex = NotYet
    /\ reIndex = NotYet
    /\ matched = NotYet
    /\ gradesData = NotYet
    /\ enriched = NotYet
    /\ NormIdle
    /\ CalcIdle
    /\ ScoreIdle
    /\ TravIdle
    /\ AppIdle

MatchNumbered ==
    /\ mallaIndex # NotYet
    /\ matched = NotYet
    /\ \E r \in NumberedRecords :
          matched' = [record |-> r, entry |-> matchAsignaturaToMalla(r, mallaIndex)]
    /\ UNCHANGED <<mallaJson, mallaIndex, reIndex, gradesData, enriched>>
    /\ UNCHANGED <<normVars, calcVars, scoreVars, travVars, appVars>>

NextFuzzy == BuildIndex \/ MatchNumbered

SpecFuzzy == InitFuzzy /\ [][NextFuzzy]_vars

\* every run of digits of s, in order
RECURSIVE digitRuns(_)
digitRuns(s) ==
    IF s = "" THEN <<>>
    ELSE IF IsDigit(CharAt(s, 1))
    THEN <<leadingDigits(s)>>
         \o digitRuns(SubSeq(s, Len(leadingDigits(s)) + 1, Len(s)))
    ELSE digitRuns(SubSeq(s, 2, Len(s)))

\* the match was made by the fuzzy stage: an entry came back though the record
\* has no code and its name is no key of byName
FuzzyReturned ==
    /\ matched # NotYet
    /\ matched.entry # JsNull
    /\ recordCodeOf(matched.record) = ""
    /\ ~MapHas(mallaIndex.byName, recordNameOf(matched.record))

\* C25: the fuzzy stage never returns a candidate when the record name and the
\* candidate name both contain digit sequences and these are not equal,
\* whatever the rule that paired them and however many sequences they hold.
C25_DigitGuard ==
    (/\ FuzzyReturned
     /\ digitRuns(recordNameOf(matched.record)) # <<>>
     /\ digitRuns(normNameOf(matched.entry)) # <<>>)
    => digitRuns(recordNameOf(matched.record)) = digitRuns(normNameOf(matched.entry))

\* the same with the first digit sequence of each name only
FirstRunGuard ==
    (/\ FuzzyReturned
     /\ digitRuns(recordNameOf(matched.record)) # <<>>
     /\ digitRuns(normNameOf(matched.entry)) # <<>>)
    => digitRuns(recordNameOf(matched.record))[1] = digitRuns(normNameOf(matched.entry))[1]

(***************************************************************************)
(* Specification of the calculator on rows the enricher made: the rows of  *)
(* a student are enriched against a curriculum whose courses carry codes,  *)
(* or names only, and the indicator is computed from them.                 *)
(***************************************************************************)
KeyRecords == {Record("K1", "Workshop I"), Record("k-1", "Workshop I"),
               Record("K2", "Workshop II"), Record("", "Workshop II")}

KeyCurricula ==
    {JsArr(<<Course("K1", "Workshop I", 1), Course("K2", "Workshop II", 2)>>),
     JsArr(<<JsObj(<<Prop("nombre", JsStr("Workshop I")), Prop("semestre", JsNum(1))>>),
             JsObj(<<Prop("nombre", JsStr("Workshop II")), Prop("semestre", JsNum(2))>>)>>)}

InitKeys ==
    /\ \E rs \in SeqsUpTo(KeyRecords, MaxRecords), doc \in KeyCurricula :
          /\ studentRecords = enrichGradesWithTraza(JsArr(rs), doc)
          /\ curriculumData = doc
    /\ criticalityData \in CriticalityTables
    /\ demographicData \in DemographicInputs
    /\ indicator = NotYet
    /\ compValues = NotYet
    /\ ultimoSemestreAlcanzado = JsUndef
    /\ stashAtCall = NotYet
    /\ audited = NotYet
    /\ NormIdle
    /\ MallaIdle
    /\ ScoreIdle
    /\ TravIdle
    /\ AppIdle

SpecKeys == InitKeys /\ [][NextCalc]_vars

\* the key under which the Criticality component files a row
criticalityKeyOf(r) == criticalityKey(criticalityCourse(r))

\* two key functions put the same rows together
SameGrouping(rows, KeyA(_), KeyB(_)) ==
    \A i, j \in 1..Len(rows) :
        (KeyA(rows[i]) = KeyA(rows[j])) <=> (KeyB(rows[i]) = KeyB(rows[j]))

SameCourses(rows) ==
    /\ SameGrouping(rows, repetitionKey, criticalityKeyOf)
    /\ SameGrouping(rows, repetitionKey, statsKey)

\* C26: Repetition, Criticality and the unique-course statistics identify a
\* course by the same key: on every set of rows of the curriculum they agree
\* on which rows belong to one course, and so on the number of courses.
C26_SameCourseKey ==
    indicator # NotYet =>
        /\ SameCourses(getMallaRecords(studentRecords))
        /\ indicator.stats.totalCourses =
              Cardinality({criticalityKeyOf(getMallaRecords(studentRecords)[i]) :
                              i \in 1..Len(getMallaRecords(studentRecords))})

(***************************************************************************)
(* C27: permanence as the comment above calculatePermanence and TEST 3 of  *)
(* test-calculations.js state it.                                          *)
(***************************************************************************)
\* 1 - years / 5, kept within [0,1]
PermanenceDocumented(years) == clamp01(RSub(RInt(1), Rat(years, 5)))

\* C27: permanence is 1 - (years of study / 5) with years = maxYear - minYear + 1
\* over the rows of the curriculum: rows of 2022-2023 give 0.6 and rows of
\* 2021-2023 give 0.4.
C27_PermanenceDocumented ==
    (compValues # NotYet /\ PlausibleYears(studentRecords) # {}) =>
        compValues.permanence =
            PermanenceDocumented(maxOf(PlausibleYears(studentRecords))
                                 - minOf(PlausibleYears(studentRecords)) + 1)

(***************************************************************************)
(* The components called with an audit object (calculators.js lines        *)
(* 118-504): what each returns and the value it records on the audit.      *)
(***************************************************************************)
Audited(returned, recorded) == [returns |-> returned, audit |-> recorded]

\* calculateApprovalRate(studentRecords, audit)
auditedApprovalRate(studentRecords_) ==
    LET counted(records, approvedCount) ==
            Audited(Rat(approvedCount, Len(records)),
                    [aprobados |-> approvedCount, total |-> Len(records),
                     rate |-> Rat(approvedCount, Len(records))])
        ofRecords(records) ==
            IF Len(records) = 0
            THEN Audited(RInt(0), [aprobados |-> 0, total |-> 0, rate |-> RInt(0)])
            ELSE counted(records,
                         Cardinality({i \in 1..Len(records) : isApproved(records[i])}))
    IN ofRecords(getMallaRecords(studentRecords_))

\* calculatePerformance(studentRecords, audit)
auditedPerformance(studentRecords_) ==
    LET ofValue(normalized) == Audited(normalized, [normalized |-> normalized])
        ofRecords(records) ==
            IF Len(records) = 0 THEN Audited(RInt(0), [normalized |-> RInt(0)])
            ELSE IF Len(gradesOf(records)) = 0
            THEN Audited(RInt(0), [normalized |-> RInt(0)])
            ELSE ofValue(calculatePerformance(studentRecords_))
    IN ofRecords(getMallaRecords(studentRecords_))

\* calculatePermanence(studentRecords, audit)
auditedPermanence(studentRecords_) ==
    LET ofValue(clamped) == Audited(clamped, [value |-> clamped])
        ofRecords(records) ==
            IF Len(records) = 0 THEN Audited(RInt(1), [value |-> RInt(1)])
            ELSE IF Len(validRecords(records)) = 0
            THEN Audited(RInt(1), [value |-> RInt(1)])
            ELSE ofValue(calculatePermanence(studentRecords_))
    IN ofRecords(getMallaRecords(studentRecords_))

\* calculateRepetition(studentRecords, audit)
auditedRepetition(studentRecords_) ==
    LET ofValue(clamped) == Audited(clamped, [value |-> clamped])
    IN IF Len(getMallaRecords(studentRecords_)) = 0
       THEN Audited(RInt(1), [value |-> RInt(1)])
       ELSE ofValue(calculateRepetition(studentRecords_))

\* auditedCriticality recording 0 when no course is scored
auditedCriticality_ZeroWhenUnscored(studentRecords_, table) ==
    LET ofValue(clamped) == Audited(clamped, [value |-> clamped])
        ofRecords(records) ==
            IF Len(records) = 0 THEN Audited(Rat(1, 2), [value |-> RInt(0)])
            ELSE IF \A i \in 1..Len(records) :
                        criticalityKey(criticalityCourse(records[i])) = ""
            THEN Audited(Rat(1, 2), [value |-> RInt(0)])
            ELSE ofValue(calculateCriticality(studentRecords_, table))
    IN ofRecords(getMallaRecords(studentRecords_))

\* calculateCriticality(studentRecords, criticalityData, audit)
auditedCriticality(studentRecords_, table) ==
    LET ofValue(clamped) == Audited(clamped, [value |-> clamped])
        ofRecords(records) ==
            IF Len(records) = 0 THEN Audited(Rat(1, 2), [value |-> Rat(1, 2)])
            ELSE IF \A i \in 1..Len(records) :
                        criticalityKey(criticalityCourse(records[i])) = ""
            THEN Audited(Rat(1, 2), [value |-> Rat(1, 2)])
            ELSE ofValue(calculateCriticality(studentRecords_, table))
    IN ofRecords(getMallaRecords(studentRecords_))

\* calculateRelevance(studentRecords, curriculumData, audit)
auditedRelevance(studentRecords_, curriculum) ==
    LET ofValue(relevance) == Audited(relevance, [value |-> relevance])
    IN IF Len(getMallaRecords(studentRecords_)) = 0
       THEN Audited(RInt(0), [value |-> RInt(0)])
       ELSE ofValue(calculateRelevance(studentRecords_, curriculum))

\* calculateDemographic(demographicData, audit)
auditedDemographic(demographic) ==
    LET ofValue(value) == Audited(value, [value |-> value])
    IN IF ~Truthy(demographic) THEN Audited(RInt(0), [value |-> RInt(0)])
       ELSE ofValue(calculateDemographic(demographic))

\* the seven components of calculateExitIndicatorWithAudit, lines 744-752
auditedComponents(studentRecords_, table, curriculum, demographic) ==
    [c \in DOMAIN weightOf |->
        CASE c = "approvalRate" -> auditedApprovalRate(studentRecords_)
          [] c = "performance" -> auditedPerformance(studentRecords_)
          [] c = "permanence" -> auditedPermanence(studentRecords_)
          [] c = "repetition" -> auditedRepetition(studentRecords_)
          [] c = "criticality" -> auditedCriticality(studentRecords_, table)
          [] c = "relevance" -> auditedRelevance(studentRecords_, curriculum)
          [] OTHER -> auditedDemographic(demographic)]

(***************************************************************************)
(* getCourseBreakdown (calculators.js lines 509-585).                      *)
(***************************************************************************)
\* getCriticalityScore of getCourseBreakdown, lines 517-529
breakdownScore(item) ==
    LET intento(a, b) == JsNullish(JsNullish(Get(item, a), Get(item, b)), JsNull)
        category(cat) ==
            IF cat \in DOMAIN CRITICALITY_SCORES THEN CRITICALITY_SCORES[cat] ELSE 1
        score(intento4, intento3, intento2, catRaw) ==
            IF intento4 # JsNull THEN criticidadScoreFromPercent(intento4)
            ELSE IF intento3 # JsNull THEN criticidadScoreFromPercent(intento3)
            ELSE IF intento2 # JsNull THEN criticidadScoreFromPercent(intento2)
            ELSE category(removeSpaces(toLowerCase(normalizeText(catRaw))))
    IN score(intento("intento4", "Porcentaje_4"),
             intento("intento3", "Porcentaje_3"),
             intento("intento2", "Porcentaje_2"),
             JsNullish(JsNullish(JsNullish(
                 Get(item, "criticidad"), Get(item, "categoria")),
                 Get(item, "Categoría")), JsStr("")))

\* ingest of getCourseBreakdown, lines 532-541
RECURSIVE breakdownIngest(_, _, _)
breakdownIngest(maps, list, i) ==
    IF Evaluated(maps) /\ (list.t # "arr" \/ i > Len(list.items)) THEN maps
    ELSE breakdownIngest(
            ingestItem(maps,
                removeSpaces(normalizeText(JsNullish(JsNullish(
                    Get(list.items[i], "codigo"), Get(list.items[i], "sigla")),
                    JsStr("")))),
                normalizeText(JsNullish(JsNullish(JsNullish(
                    Get(list.items[i], "Asignatura"), Get(list.items[i], "asignatura")),
                    Get(list.items[i], "nombre")), JsStr(""))),
                breakdownScore(list.items[i])),
            list, i + 1)

RECURSIVE breakdownIngestAll(_, _, _)
breakdownIngestAll(maps, lists, i) ==
    IF Evaluated(maps) /\ i > Len(lists) THEN maps
    ELSE breakdownIngestAll(breakdownIngest(maps, lists[i], 1), lists, i + 1)

\* the lookups getCourseBreakdown builds, lines 531-544
breakdownMaps(table) ==
    breakdownIngestAll([critByCode |-> <<>>, critByName |-> <<>>],
                       IF ~Truthy(table) THEN <<>>
                       ELSE IF table.t = "arr" THEN <<table>>
                       ELSE IF table.t = "obj"
                            THEN [i \in 1..Len(table.props) |-> table.props[i].v]
                            ELSE <<>>,
                       1)

\* the entry made for the first row r of a key, lines 551-568 and 571-584
breakdownEntry(key, r, attempts, maps) ==
    LET code == removeSpaces(normalizeText(
                    JsOr(JsOr(Get(r, "codigoMalla"), Get(r, "codigoAsignatura")),
                         JsStr(""))))
        name == normalizeText(JsOr(JsOr(Get(r, "nombreMalla"), Get(r, "nombreAsignatura")),
                                   Get(r, "asignatura")))
    IN [key |-> key,
        asignatura |-> JsOr(JsOr(JsOr(Get(r, "nombreMalla"), Get(r, "nombreAsignatura")),
                                 Get(r, "asignatura")), key),
        codigo |-> JsOr(JsOr(Get(r, "codigoMalla"), Get(r, "codigoAsignatura")),
                        JsStr("")),
        intentos |-> Len(attempts),
        notaPromedio |-> IF Len(gradesOf(attempts)) > 0
                         THEN JsNum(averageGradeHundredths(attempts))
                         ELSE JsStr("N/A"),
        puntajeCriticidad |->
            IF code # "" /\ MapHas(maps.critByCode, code)
            THEN MapGet(maps.critByCode, code)
            ELSE IF name # "" /\ MapHas(maps.critByName, name)
            THEN MapGet(maps.critByName, name)
            ELSE 1,
        semestreMalla |-> JsOr(Get(r, "semestreCurricular"), JsNum(0)),
        enMalla |-> TRUE]

\* getCourseBreakdown: one entry for every truthy key, in the order of the first
\* row with the key
getCourseBreakdown(studentRecords_, table) ==
    LET rowsOf(records, key) ==
            filterUpTo(records,
                       [i \in 1..Len(records) |-> repetitionKey(records[i]) = key],
                       Len(records))
        isFirst(records, i) ==
            /\ Truthy(repetitionKey(records[i]))
            /\ \A j \in 1..(i - 1) : repetitionKey(records[j]) # repetitionKey(records[i])
        entries(records, maps) ==
            [k \in 1..Len(filterUpTo(records,
                                     [i \in 1..Len(records) |-> isFirst(records, i)],
                                     Len(records))) |->
                LET r == filterUpTo(records,
                                    [i \in 1..Len(records) |-> isFirst(records, i)],
                                    Len(records))[k]
                IN breakdownEntry(repetitionKey(r), r, rowsOf(records, repetitionKey(r)),
                                  maps)]
    IN entries(getMallaRecords(studentRecords_), breakdownMaps(table))

(***************************************************************************)
(* calculateExitIndicatorWithAudit (calculators.js lines 726-864).         *)
(***************************************************************************)
calculateExitIndicatorWithAuditFrom(stash, studentRecords_, table, curriculum, demographic) ==
    IF studentRecords_.t # "arr" \/ Len(studentRecords_.items) = 0
    THEN [components |-> <<>>,
          totalScore |-> RInt(0),
          level |-> "Bajo",
          levelClass |-> "low",
          malla |-> JsStr("default"),
          stats |-> [totalCourses |-> 0, approvedCourses |-> 0, averageGrade |-> 0,
                     currentSemester |-> 0, coveragePct |-> RInt(0)],
          audit |-> JsNull,
          courseBreakdown |-> <<>>]
    ELSE LET stats(records) ==
                 statsOf(records,
                         Cardinality({statsKey(records[i]) : i \in 1..Len(records)}),
                         getTotalPlanCourses(curriculum),
                         JsOr(stashAfterRelevance(stash, studentRecords_), JsNum(0)).n)
             result(components, audit) ==
                 Having(components,
                     indicatorOf(JsOr(Get(studentRecords_.items[1], "malla"),
                                      JsStr("default")),
                                 components, finalPercentageOf(components),
                                 stats(getMallaRecords(studentRecords_))))
                 @@ [audit |-> audit,
                     courseBreakdown |-> getCourseBreakdown(studentRecords_, table)]
             ofAudited(audited_) ==
                 Having(audited_,
                 result(componentsOf([c \in DOMAIN weightOf |-> audited_[c].returns]),
                        [c \in DOMAIN weightOf |-> audited_[c].audit]))
         IN ofAudited(auditedComponents(studentRecords_, table, curriculum, demographic))

(***************************************************************************)
(* Specification of the audited indicator: on the same inputs the plain    *)
(* and the audited indicator are computed, in either order.                *)
(***************************************************************************)
\* an entry of a criticality table for the course K1
AuditEntry(props) == JsObj(<<Prop("codigo", JsStr("K1"))>> \o props)

\* tables of one entry: attempt percentages under each style of key, an empty
\* attempt field beside a label, labels under each key
AuditTables ==
    {JsArr(<<AuditEntry(<<Prop("intento4", JsNum(35))>>)>>),
     JsArr(<<AuditEntry(<<Prop("Porcentaje_3", JsNum(12))>>)>>),
     JsArr(<<AuditEntry(<<Prop("Porcentaje 4", JsNum(35))>>)>>),
     JsArr(<<AuditEntry(<<Prop("intento4", JsStr("")),
                          Prop("criticidad", JsStr("Alta"))>>)>>),
     JsArr(<<AuditEntry(<<Prop("criticidad", JsStr("Media-Alta"))>>)>>),
     JsArr(<<AuditEntry(<<Prop("Categoría", JsStr("Baja"))>>)>>),
     JsArr(<<AuditEntry(<<Prop("Categoria", JsStr("Alta"))>>)>>),
     JsObj(<<Prop("Hoja1",
                  JsArr(<<JsObj(<<Prop("nombre", JsStr("Workshop I")),
                                  Prop("intento2", JsNum(7))>>)>>))>>)}

InitAudit ==
    \/ InitComponents
    \/ /\ studentRecords \in
             {JsArr(<<EnrichedRow("K1", 42, "true")>>),
              JsArr(<<EnrichedRow("K1", 35, "true"), EnrichedRow("K1", 42, "true"),
                      EnrichedRow("K2", 42, "true")>>)}
       /\ criticalityData \in AuditTables
       /\ curriculumData = JsNull
       /\ demographicData = JsNull
       /\ indicator = NotYet
       /\ compValues = NotYet
       /\ ultimoSemestreAlcanzado = JsUndef
       /\ stashAtCall = NotYet
       /\ audited = NotYet
       /\ NormIdle
       /\ MallaIdle
       /\ ScoreIdle
       /\ TravIdle
       /\ AppIdle

\* calculateExitIndicatorWithAudit(studentRecords, criticalityData,
\* curriculumData, demographicData)
CalculateWithAudit ==
    /\ audited = NotYet
    /\ audited' = calculateExitIndicatorWithAuditFrom(ultimoSemestreAlcanzado,
                        studentRecords, criticalityData, curriculumData,
                        demographicData)
    /\ ultimoSemestreAlcanzado' =
          stashAfterIndicator(ultimoSemestreAlcanzado, studentRecords)
    /\ UNCHANGED <<studentRecords, criticalityData, curriculumData, demographicData,
                   indicator, compValues, stashAtCall>>
    /\ UNCHANGED <<normVars, mallaVars, scoreVars, travVars, appVars>>

NextAudit == Calculate \/ CalculateWithAudit

SpecAudit == InitAudit /\ [][NextAudit]_vars

\* the value the audit object holds for a component
AuditValue(audit, c) ==
    IF c = "approvalRate" THEN audit[c].rate
    ELSE IF c = "performance" THEN audit[c].normalized
    ELSE audit[c].value

\* C28: calculateExitIndicatorWithAudit returns the components, the total, the
\* tier and the statistics calculateExitIndicator returns for the same inputs,
\* and every value recorded on the audit object is the value of its component.
C28_AuditAgrees ==
    (indicator # NotYet /\ audited # NotYet) =>
        /\ \A f \in DOMAIN indicator : audited[f] = indicator[f]
        /\ audited.audit # JsNull =>
              \A c \in DOMAIN weightOf :
                  AuditValue(audited.audit, c) = audited.components[c].value

\* both were computed for a student none of whose rows is in the curriculum:
\* the audit holds the neutral 1/2 the criticality component returns
C28_Witness ==
    /\ indicator # NotYet
    /\ audited # NotYet
    /\ audited.audit # JsNull
    /\ Len(getMallaRecords(studentRecords)) = 0
    /\ audited.audit["criticality"].value = Rat(1, 2)
    /\ indicator.components["criticality"].value = Rat(1, 2)

\* the first row of the curriculum that getCourseBreakdown files under key
FirstRowOf(records, key) ==
    records[CHOOSE i \in 1..Len(records) :
               /\ repetitionKey(records[i]) = key
               /\ \A j \in 1..(i - 1) : repetitionKey(records[j]) # key]

\* C29: for every course of the breakdown, puntajeCriticidad is the score the
\* Criticality component used for that course, whatever the criticality table:
\* entries with empty attempt fields and 'Porcentaje 4' style keys included.
C29_BreakdownScore ==
    audited # NotYet =>
        \A k \in 1..Len(audited.courseBreakdown) :
            audited.courseBreakdown[k].puntajeCriticidad =
                criticalityScoreOf(
                    criticalityCourse(FirstRowOf(getMallaRecords(studentRecords),
                                                 audited.courseBreakdown[k].key)),
                    criticalityMaps(criticalityData))

(***************************************************************************)
(* The App component: the gradesData and curriculumData states, the file   *)
(* loads that set them, and the effect that enriches the grades.           *)
(***************************************************************************)
MaxLoads == 3       \* most loads and resets in one session of the App

\* JSON.stringify, as the value the text denotes: a property whose value is
\* undefined is left out, an undefined array item and NaN are written null, the
\* properties and the items keep their order
RECURSIVE stringify(_)
stringify(v) ==
    CASE v.t = "obj" ->
            LET kept == SelectSeq(v.props, LAMBDA p : p.v.t # "undef")
            IN  JsObj([i \in 1..Len(kept) |-> Prop(kept[i].k, stringify(kept[i].v))])
      [] v.t = "arr" ->
            JsArr([i \in 1..Len(v.items) |->
                     IF v.items[i].t = "undef" THEN JsNull ELSE stringify(v.items[i])])
      [] v.t = "nan" -> JsNull
      [] OTHER -> v

\* rows of a grades file: two plain rows, a row that already carries the four
\* fields of a row outside the curriculum, and a row whose fields are stale
AppRows ==
    {Record("K1", "Workshop II"), Record("", "Workshop I"),
     enrichRecord(Record("zz", "Other"), JsNull),
     SetProp(SetProp(Record("zz", "Other"), "enMalla", JsBool(TRUE)),
             "observacion", JsUndef)}

AppFiles == {JsArr(rs) : rs \in SeqsUpTo(AppRows, 1)}

AppCurricula ==
    {JsArr(<<Course("K1", "Workshop II", 0)>>),
     JsObj(<<Prop("semestre 3", JsArr(<<Course("k-2", "Workshop I", 0)>>))>>)}

InitApp ==
    /\ AppIdle
    /\ NormIdle
    /\ MallaIdle
    /\ CalcIdle
    /\ ScoreIdle
    /\ TravIdle

\* handleDataLoaded('grades', data): setGradesData(prev => [...prev, ...data])
LoadGrades ==
    /\ loads < MaxLoads
    /\ \E data \in AppFiles :
          appGradesData' = JsArr(appGradesData.items \o data.items)
    /\ effectPending' = TRUE
    /\ writes' = 0
    /\ loads' = loads + 1
    /\ UNCHANGED appCurriculumData
    /\ UNCHANGED <<normVars, mallaVars, calcVars, scoreVars, travVars>>

\* handleDataLoaded('curriculum', data): setCurriculumData(data)
LoadCurriculum ==
    /\ loads < MaxLoads
    /\ \E data \in AppCurricula : appCurriculumData' = data
    /\ effectPending' = TRUE
    /\ writes' = 0
    /\ loads' = loads + 1
    /\ UNCHANGED appGradesData
    /\ UNCHANGED <<normVars, mallaVars, calcVars, scoreVars, travVars>>

\* handleReset: setGradesData([]), setCurriculumData(null)
Reset ==
    /\ loads < MaxLoads
    /\ appGradesData' = JsArr(<<>>)
    /\ appCurriculumData' = JsNull
    /\ effectPending' = TRUE
    /\ writes' = 0
    /\ loads' = loads + 1
    /\ UNCHANGED <<normVars, mallaVars, calcVars, scoreVars, travVars>>

\* the body of the effect, with the enriched list computed: setGradesData(enriched)
\* gives gradesData a new value, so the effect is due again; otherwise it rests.
\* The count of writes stops at 2, which is enough to tell one write from more.
writeBack(enriched_) ==
    IF stringify(enriched_) # stringify(appGradesData)
    THEN /\ appGradesData' = enriched_
         /\ writes' = IF writes < 2 THEN writes + 1 ELSE writes
         /\ effectPending' = TRUE
    ELSE /\ effectPending' = FALSE
         /\ UNCHANGED <<appGradesData, writes>>

\* useEffect(() => {...}, [gradesData, curriculumData])
EnrichEffect ==
    /\ effectPending
    /\ IF Len(appGradesData.items) > 0 /\ Truthy(appCurriculumData)
       THEN writeBack(enrichGradesWithTraza(appGradesData, appCurriculumData))
       ELSE /\ effectPending' = FALSE
            /\ UNCHANGED <<appGradesData, writes>>
    /\ UNCHANGED <<appCurriculumData, loads>>
    /\ UNCHANGED <<normVars, mallaVars, calcVars, scoreVars, travVars>>

NextApp == LoadGrades \/ LoadCurriculum \/ Reset \/ EnrichEffect

\* React runs an effect after the render in which its dependencies changed:
\* weak fairness of EnrichEffect, which is enabled exactly when the effect is
\* pending and whose steps are the steps that leave loads alone
EffectFair == []<>(~effectPending) \/ []<><<loads' = loads>>_vars

SpecApp == InitApp /\ [][NextApp]_vars /\ EffectFair

\* the effect has nothing to enrich with
NothingToEnrich == Len(appGradesData.items) = 0 \/ ~Truthy(appCurriculumData)

\* gradesData is a fixpoint of the enrichment with curriculumData
EnrichFixpoint ==
    stringify(enrichGradesWithTraza(appGradesData, appCurriculumData))
        = stringify(appGradesData)

\* C30: enriching an enriched list with the same curriculum changes nothing, so
\* the effect writes gradesData back at most once after each load, and it
\* comes to rest: once it has written, the list is a fixpoint of the
\* enrichment, and a pending effect always leads to a resting one, where the
\* list is a fixpoint unless there is nothing to enrich with.
C30_EnrichmentSettles ==
    /\ [](writes <= 1)
    /\ [](writes = 1 => EnrichFixpoint)
    /\ (effectPending ~> ~effectPending)
    /\ [](~effectPending => (NothingToEnrich \/ EnrichFixpoint))

\* the effect wrote once after a load, ran again and rests
C30_Witness ==
    /\ writes = 1
    /\ ~effectPending
    /\ ~NothingToEnrich
    /\ \E i \in 1..Len(appGradesData.items) :
          Get(appGradesData.items[i], "enMalla") = JsBool(TRUE)

=============================================================================
